---------------------------- MODULE Spec2Model ----------------------------
(***************************************************************************)
(* Bank-statement import (BankStatementUpload, src/unnamed/part_000).      *)
(*                                                                         *)
(* Texts are sequences of one-character strings, so that trimming,         *)
(* matching, splitting and number conversion are computed as the code      *)
(* computes them.  An absent value (null, NaN) is the empty sequence <<>>  *)
(* and a present number n is <<n>>; an ISO date is its ten characters.     *)
(***************************************************************************)
EXTENDS Integers, Sequences, FiniteSets, TLC

VARIABLES
    \* ---- React state of the component (useState, part_000:189-202)
    fileName, rawRows, hasHeaderRow,
    dateColumnIndex, balanceColumnIndex, amountColumnIndex,
    selectedAccountId, dateFormat, statementType, startingBalanceInput,
    replaceExisting, isImporting, statusMessage, errorMessage,
    \* ---- environment of the component
    engine,          \* the JavaScript engine the page runs on (Date parsing)
    pendingReads,    \* file.text() promises that have not settled yet
    effectPending,   \* the column detection effect is scheduled
    lastImport,      \* what the most recent handler did with the store
    \* ---- harness for the pure functions of the pipeline
    pc, input, output

compVars == <<fileName, rawRows, hasHeaderRow, dateColumnIndex,
              balanceColumnIndex, amountColumnIndex, selectedAccountId,
              dateFormat, statementType, startingBalanceInput,
              replaceExisting, isImporting, statusMessage, errorMessage,
              pendingReads, effectPending, lastImport>>

vars == <<compVars, engine, pc, input, output>>

(***************************************************************************)
(* Absent values.                                                          *)
(***************************************************************************)
Null == <<>>
NaN == <<>>
Num(n) == <<n>>

(***************************************************************************)
(* Characters and strings.                                                 *)
(***************************************************************************)
DigitChars == <<"0", "1", "2", "3", "4", "5", "6", "7", "8", "9">>

IsDigit(c) == \E i \in 1..10 : DigitChars[i] = c

DigitValue(c) == CHOOSE v \in 0..9 : DigitChars[v + 1] = c

\* white space as String.prototype.trim and the regular expression \s see it
IsSpace(c) == c \in {" ", "\t", "\n", "\r"}

AllDigits(s) == \A i \in 1..Len(s) : IsDigit(s[i])

RECURSIVE TrimLeft(_)
TrimLeft(s) ==
    IF s # <<>> /\ IsSpace(Head(s)) THEN TrimLeft(Tail(s)) ELSE s

RECURSIVE TrimRight(_)
TrimRight(s) ==
    IF s # <<>> /\ IsSpace(s[Len(s)])
    THEN TrimRight(SubSeq(s, 1, Len(s) - 1))
    ELSE s

\* String.prototype.trim
Trim(s) == TrimRight(TrimLeft(s))

\* the value of a non-empty run of decimal digits
RECURSIVE DigitsValue(_)
DigitsValue(s) ==
    IF s = <<>> THEN 0
    ELSE 10 * DigitsValue(SubSeq(s, 1, Len(s) - 1)) + DigitValue(s[Len(s)])

\* Number(text) for texts over digits, signs, separators and letters:
\* an optionally signed run of digits is its value, the empty text is 0,
\* anything else is NaN.
NumberOf(text) ==
    LET t == Trim(text) IN
    IF t = <<>> THEN Num(0)
    ELSE IF AllDigits(t) THEN Num(DigitsValue(t))
    ELSE IF Head(t) \in {"-", "+"} /\ Len(t) > 1 /\ AllDigits(Tail(t))
         THEN Num((IF Head(t) = "-" THEN -1 ELSE 1) * DigitsValue(Tail(t)))
    ELSE NaN

\* String.prototype.split on any one of the separator characters
RECURSIVE SplitOn(_, _)
SplitOn(s, seps) ==
    IF \A i \in 1..Len(s) : s[i] \notin seps THEN <<s>>
    ELSE LET k == CHOOSE i \in 1..Len(s) :
                      /\ s[i] \in seps
                      /\ \A j \in 1..(i - 1) : s[j] \notin seps
         IN <<SubSeq(s, 1, k - 1)>> \o SplitOn(SubSeq(s, k + 1, Len(s)), seps)

\* decimal digits of n >= 0, at least w of them
RECURSIVE PadDigits(_, _)
PadDigits(n, w) ==
    IF n < 10 /\ w <= 1 THEN <<DigitChars[n + 1]>>
    ELSE PadDigits(n \div 10, w - 1) \o <<DigitChars[(n % 10) + 1]>>

(***************************************************************************)
(* Calendar arithmetic of the Date object (proleptic Gregorian, in days).  *)
(***************************************************************************)
\* day number (days since 1970-01-01) of year y, month m in 1..12, and any
\* integer day of month d: MakeDay carries an out-of-range d over
DaysFromCivil(y, m, d) ==
    LET yy == IF m <= 2 THEN y - 1 ELSE y
        era == yy \div 400
        yoe == yy - era * 400
        mp == IF m > 2 THEN m - 3 ELSE m + 9
        doy == (153 * mp + 2) \div 5 + d - 1
        doe == yoe * 365 + yoe \div 4 - yoe \div 100 + doy
    IN era * 146097 + doe - 719468

\* getUTCFullYear / getUTCMonth + 1 / getUTCDate of a day number
CivilFromDays(z) ==
    LET zz == z + 719468
        era == zz \div 146097
        doe == zz - era * 146097
        yoe == (doe - doe \div 1460 + doe \div 36524 - doe \div 146096) \div 365
        doy == doe - (365 * yoe + yoe \div 4 - yoe \div 100)
        mp == (5 * doy + 2) \div 153
        d == doy - (153 * mp + 2) \div 5 + 1
        m == IF mp < 10 THEN mp + 3 ELSE mp - 9
    IN [y |-> yoe + era * 400 + (IF m <= 2 THEN 1 ELSE 0), m |-> m, d |-> d]

\* Date.UTC(year, monthIndex, day): a year in 0..99 means 1900 + year, and a
\* month index outside 0..11 carries into the year
DateUTC(year, monthIndex, day) ==
    LET yr == IF 0 <= year /\ year <= 99 THEN 1900 + year ELSE year
        ym == yr + (monthIndex \div 12)
        mn == monthIndex % 12
    IN DaysFromCivil(ym, mn + 1, 1) + day - 1

\* toISOString().split('T')[0]: YYYY-MM-DD, or the expanded +YYYYYY / -YYYYYY
\* year outside 0..9999
IsoString(c) ==
    LET yearPart == IF c.y >= 0 /\ c.y <= 9999 THEN PadDigits(c.y, 4)
                    ELSE IF c.y < 0 THEN <<"-">> \o PadDigits(-c.y, 6)
                    ELSE <<"+">> \o PadDigits(c.y, 6)
    IN yearPart \o <<"-">> \o PadDigits(c.m, 2) \o <<"-">> \o PadDigits(c.d, 2)

toIsoDate(year, month, day) ==
    IF year = NaN \/ month = NaN \/ day = NaN THEN Null
    ELSE LET utcDate == CivilFromDays(DateUTC(year[1], month[1] - 1, day[1]))
         IN IF \/ utcDate.y # year[1]
               \/ utcDate.m # month[1]
               \/ utcDate.d # day[1]
            THEN Null
            ELSE IsoString(utcDate)


\* a faulty variant: the auto policy always reads month-day-year
parseDateFromParts_AlwaysMdy(parts, format) ==
    IF Len(parts) # 3 THEN Null
    ELSE LET part1 == Trim(parts[1])
             part2 == Trim(parts[2])
             part3 == Trim(parts[3])
         IN IF part1 = <<>> \/ part2 = <<>> \/ part3 = <<>> THEN Null
            ELSE IF format = "ymd" /\ Len(part1) = 4
                 THEN toIsoDate(NumberOf(part1), NumberOf(part2), NumberOf(part3))
            ELSE IF format \in {"mdy", "dmy"} /\ Len(part3) = 4
                 THEN LET month == IF format = "mdy" THEN NumberOf(part1)
                                                    ELSE NumberOf(part2)
                          day == IF format = "mdy" THEN NumberOf(part2)
                                                  ELSE NumberOf(part1)
                      IN toIsoDate(NumberOf(part3), month, day)
            ELSE IF format = "auto" /\ Len(part1) = 4
                 THEN toIsoDate(NumberOf(part1), NumberOf(part2), NumberOf(part3))
            ELSE IF format = "auto" /\ Len(part3) = 4
                 THEN toIsoDate(NumberOf(part3), NumberOf(part1), NumberOf(part2))
            ELSE Null

parseDateFromParts(parts, format) ==
    IF Len(parts) # 3 THEN Null
    ELSE LET part1 == Trim(parts[1])
             part2 == Trim(parts[2])
             part3 == Trim(parts[3])
         IN IF part1 = <<>> \/ part2 = <<>> \/ part3 = <<>> THEN Null
            ELSE IF format = "ymd" /\ Len(part1) = 4
                 THEN toIsoDate(NumberOf(part1), NumberOf(part2), NumberOf(part3))
            ELSE IF format \in {"mdy", "dmy"} /\ Len(part3) = 4
                 THEN LET month == IF format = "mdy" THEN NumberOf(part1)
                                                    ELSE NumberOf(part2)
                          day == IF format = "mdy" THEN NumberOf(part2)
                                                  ELSE NumberOf(part1)
                      IN toIsoDate(NumberOf(part3), month, day)
            ELSE IF format = "auto" /\ Len(part1) = 4
                 THEN toIsoDate(NumberOf(part1), NumberOf(part2), NumberOf(part3))
            ELSE IF format = "auto" /\ Len(part3) = 4
                 THEN LET first == NumberOf(part1)
                          second == NumberOf(part2)
                      IN IF /\ first # NaN /\ second # NaN
                            /\ first[1] > 12 /\ second[1] <= 12
                         THEN toIsoDate(NumberOf(part3), second, first)
                         ELSE toIsoDate(NumberOf(part3), first, second)
            ELSE Null

(***************************************************************************)
(* new Date(text) of a text that is not in the ECMAScript date-time        *)
(* format is implementation-defined.  The model knows two engines:         *)
(*   "strict"  answers Invalid Date for every such text;                   *)
(*   "v8"      reads three runs of digits separated by / - or . as         *)
(*             month, day, year (as year, month, day when the first is     *)
(*             no day of a month), takes a year below 50 as 20YY and       *)
(*             below 100 as 19YY, accepts every day in 1..31 for every     *)
(*             month and lets the day carry over into the next month.      *)
(* The result is the local calendar date (getFullYear, getMonth() + 1,     *)
(* getDate) or NaN.  Texts of any other shape are outside the model: the   *)
(* specifications below draw none that would reach this parse.             *)
(***************************************************************************)
Engines == {"strict", "v8"}

DateParse(text, eng) ==
    LET comp == SplitOn(text, {"/", "-", "."}) IN
    IF eng # "v8" THEN NaN
    ELSE IF Len(comp) # 3 \/ \E i \in 1..3 : comp[i] = <<>> \/ ~AllDigits(comp[i])
    THEN NaN
    ELSE LET n1 == DigitsValue(comp[1])
             n2 == DigitsValue(comp[2])
             n3 == DigitsValue(comp[3])
             ymd == ~(1 <= n1 /\ n1 <= 31)
             yearRead == IF ymd THEN n1 ELSE n3
             month == IF ymd THEN n2 ELSE n1
             day == IF ymd THEN n3 ELSE n2
             year == IF yearRead <= 49 THEN yearRead + 2000
                     ELSE IF yearRead <= 99 THEN yearRead + 1900
                     ELSE yearRead
         IN IF month < 1 \/ month > 12 \/ day < 1 \/ day > 31 THEN NaN
            ELSE <<CivilFromDays(DaysFromCivil(year, month, 1) + day - 1)>>

\* /^(\d{4})[\/-](\d{1,2})[\/-](\d{1,2})$/
isoMatch(trimmed) ==
    LET g == SplitOn(trimmed, {"/", "-"}) IN
    IF /\ Len(g) = 3
       /\ \A i \in 1..3 : AllDigits(g[i])
       /\ Len(g[1]) = 4
       /\ Len(g[2]) \in {1, 2}
       /\ Len(g[3]) \in {1, 2}
    THEN g ELSE Null

\* /^(\d{1,2})[\/-](\d{1,2})[\/-](\d{4})$/
numericMatch(trimmed) ==
    LET g == SplitOn(trimmed, {"/", "-"}) IN
    IF /\ Len(g) = 3
       /\ \A i \in 1..3 : AllDigits(g[i])
       /\ Len(g[1]) \in {1, 2}
       /\ Len(g[2]) \in {1, 2}
       /\ Len(g[3]) = 4
    THEN g ELSE Null

\* the generic parse of lines 146-153
fallbackDate(trimmed, eng) ==
    LET fallback == DateParse(trimmed, eng) IN
    IF fallback = NaN THEN Null
    ELSE toIsoDate(Num(fallback[1].y), Num(fallback[1].m), Num(fallback[1].d))

\* a faulty variant: a year-first text is read by the format policy
normalizeDate_IsoByPolicy(raw, format, eng) ==
    LET trimmed == Trim(raw)
        altSeparators == SplitOn(trimmed, {"."})
        normalized == parseDateFromParts(altSeparators, format)
    IN IF trimmed = <<>> THEN Null
       ELSE IF isoMatch(trimmed) # Null
            THEN parseDateFromParts(isoMatch(trimmed), format)
       ELSE IF numericMatch(trimmed) # Null
            THEN parseDateFromParts(numericMatch(trimmed), format)
       ELSE IF Len(altSeparators) = 3 /\ normalized # Null THEN normalized
       ELSE fallbackDate(trimmed, eng)

\* a faulty variant: a numeric text the policy does not read goes on to the
\* later syntaxes and the generic parse
normalizeDate_FallsThrough(raw, format, eng) ==
    LET trimmed == Trim(raw)
        altSeparators == SplitOn(trimmed, {"."})
        normalized == parseDateFromParts(altSeparators, format)
    IN IF trimmed = <<>> THEN Null
       ELSE IF isoMatch(trimmed) # Null
            THEN LET m == isoMatch(trimmed)
                 IN toIsoDate(NumberOf(m[1]), NumberOf(m[2]), NumberOf(m[3]))
       ELSE IF /\ numericMatch(trimmed) # Null
               /\ parseDateFromParts(numericMatch(trimmed), format) # Null
            THEN parseDateFromParts(numericMatch(trimmed), format)
       ELSE IF Len(altSeparators) = 3 /\ normalized # Null THEN normalized
       ELSE fallbackDate(trimmed, eng)

normalizeDate(raw, format, eng) ==
    LET trimmed == Trim(raw)
        altSeparators == SplitOn(trimmed, {"."})
        normalized == parseDateFromParts(altSeparators, format)
    IN IF trimmed = <<>> THEN Null
       ELSE IF isoMatch(trimmed) # Null
            THEN LET m == isoMatch(trimmed)
                 IN toIsoDate(NumberOf(m[1]), NumberOf(m[2]), NumberOf(m[3]))
       ELSE IF numericMatch(trimmed) # Null
            THEN parseDateFromParts(numericMatch(trimmed), format)
       ELSE IF Len(altSeparators) = 3 /\ normalized # Null THEN normalized
       ELSE fallbackDate(trimmed, eng)

(***************************************************************************)
(* Amounts.  A number is an integer count of units of 10^-FracDigits, so   *)
(* that every decimal text with at most FracDigits fraction digits has an  *)
(* exact value (1234.50 is 1234500 when FracDigits is 3).                  *)
(***************************************************************************)
FracDigits == 3

RECURSIVE Pow10(_)
Pow10(k) == IF k <= 0 THEN 1 ELSE 10 * Pow10(k - 1)

Unit == Pow10(FracDigits)

Abs(x) == IF x < 0 THEN -x ELSE x

\* the longest prefix of s that consists of digits
RECURSIVE DigitPrefix(_)
DigitPrefix(s) ==
    IF s # <<>> /\ IsDigit(Head(s)) THEN <<Head(s)>> \o DigitPrefix(Tail(s))
    ELSE <<>>

\* Number.parseFloat: the longest prefix that is a decimal literal (sign,
\* digits, optional point and digits), whatever follows it; NaN when there
\* is no such prefix.  Fraction digits beyond FracDigits are cut off.
parseFloat(text) ==
    LET t == TrimLeft(text)
        signed == t # <<>> /\ Head(t) \in {"-", "+"}
        sign == IF signed /\ Head(t) = "-" THEN -1 ELSE 1
        body == IF signed THEN Tail(t) ELSE t
        intPart == DigitPrefix(body)
        rest == SubSeq(body, Len(intPart) + 1, Len(body))
        fracAll == IF rest # <<>> /\ Head(rest) = "." THEN DigitPrefix(Tail(rest))
                   ELSE <<>>
        fracPart == SubSeq(fracAll, 1, IF Len(fracAll) < FracDigits
                                       THEN Len(fracAll) ELSE FracDigits)
    IN IF intPart = <<>> /\ fracAll = <<>> THEN NaN
       ELSE Num(sign * (DigitsValue(intPart) * Unit
                        + DigitsValue(fracPart) * Pow10(FracDigits - Len(fracPart))))

\* String.prototype.replace(/[$,\s]/g, '')
RECURSIVE StripMoney(_)
StripMoney(s) ==
    IF s = <<>> THEN <<>>
    ELSE IF Head(s) \in {"$", ","} \/ IsSpace(Head(s)) THEN StripMoney(Tail(s))
    ELSE <<Head(s)>> \o StripMoney(Tail(s))

\* a faulty variant: parentheses and a leading minus cancel each other
parseAmount_MarkersCancel(raw) ==
    LET trimmed == Trim(raw)
        wrapped == trimmed # <<>> /\ Head(trimmed) = "(" /\ trimmed[Len(trimmed)] = ")"
        inner == IF wrapped THEN SubSeq(trimmed, 2, Len(trimmed) - 1) ELSE trimmed
        stripped == StripMoney(inner)
        minus == stripped # <<>> /\ Head(stripped) = "-"
        cleaned == IF minus THEN Tail(stripped) ELSE stripped
        isNegative == wrapped # minus
        value == parseFloat(cleaned)
    IN IF trimmed = <<>> THEN Null
       ELSE IF value = NaN THEN Null
       ELSE IF isNegative THEN Num(-Abs(value[1])) ELSE value

parseAmount(raw) ==
    LET trimmed == Trim(raw)
        wrapped == trimmed # <<>> /\ Head(trimmed) = "(" /\ trimmed[Len(trimmed)] = ")"
        inner == IF wrapped THEN SubSeq(trimmed, 2, Len(trimmed) - 1) ELSE trimmed
        stripped == StripMoney(inner)
        minus == stripped # <<>> /\ Head(stripped) = "-"
        cleaned == IF minus THEN Tail(stripped) ELSE stripped
        isNegative == wrapped \/ minus
        value == parseFloat(cleaned)
    IN IF trimmed = <<>> THEN Null
       ELSE IF value = NaN THEN Null
       ELSE IF isNegative THEN Num(-Abs(value[1])) ELSE value

(***************************************************************************)
(* The tokenizer (parseCsv, lines 20-76).                                  *)
(***************************************************************************)
\* the scanner before the first character (lines 21-24); skip is set when
\* the loop body has also consumed the next character (i += 1, line 34)
ScanStart ==
    [rows |-> <<>>, currentRow |-> <<>>, currentField |-> <<>>,
     inQuotes |-> FALSE, skip |-> FALSE]

\* a faulty variant: inside quotes every quote closes the field, doubled or not
ScanChar_NoEscape(st, text, i) ==
    LET char == text[i] IN
    CASE st.inQuotes /\ char = "\"" -> [st EXCEPT !.inQuotes = FALSE]
      [] st.inQuotes /\ char # "\"" -> [st EXCEPT !.currentField = Append(@, char)]
      [] ~st.inQuotes /\ char = "\"" -> [st EXCEPT !.inQuotes = TRUE]
      [] ~st.inQuotes /\ char = "," ->
            [st EXCEPT !.currentRow = Append(@, st.currentField),
                       !.currentField = <<>>]
      [] ~st.inQuotes /\ char = "\n" ->
            [st EXCEPT !.rows = Append(@, Append(st.currentRow, st.currentField)),
                       !.currentRow = <<>>,
                       !.currentField = <<>>]
      [] ~st.inQuotes /\ char = "\r" -> st
      [] OTHER -> [st EXCEPT !.currentField = Append(@, char)]

\* a faulty variant: a carriage return is dropped inside quotes as well
ScanChar_DropsEveryCR(st, text, i) ==
    LET char == text[i] IN
    CASE st.skip -> [st EXCEPT !.skip = FALSE]
      [] ~st.skip /\ char = "\r" -> st
      [] ~st.skip /\ st.inQuotes /\ char = "\"" ->
            IF i + 1 <= Len(text) /\ text[i + 1] = "\""
            THEN [st EXCEPT !.currentField = Append(@, "\""), !.skip = TRUE]
            ELSE [st EXCEPT !.inQuotes = FALSE]
      [] ~st.skip /\ st.inQuotes /\ char \notin {"\"", "\r"} ->
            [st EXCEPT !.currentField = Append(@, char)]
      [] ~st.skip /\ ~st.inQuotes /\ char = "\"" -> [st EXCEPT !.inQuotes = TRUE]
      [] ~st.skip /\ ~st.inQuotes /\ char = "," ->
            [st EXCEPT !.currentRow = Append(@, st.currentField),
                       !.currentField = <<>>]
      [] ~st.skip /\ ~st.inQuotes /\ char = "\n" ->
            [st EXCEPT !.rows = Append(@, Append(st.currentRow, st.currentField)),
                       !.currentRow = <<>>,
                       !.currentField = <<>>]
      [] OTHER -> [st EXCEPT !.currentField = Append(@, char)]

\* one pass of the loop body (lines 27-67) on text[i]
ScanChar(st, text, i) ==
    LET char == text[i] IN
    CASE st.skip -> [st EXCEPT !.skip = FALSE]
      [] ~st.skip /\ st.inQuotes /\ char = "\"" ->
            IF i + 1 <= Len(text) /\ text[i + 1] = "\""
            THEN [st EXCEPT !.currentField = Append(@, "\""), !.skip = TRUE]
            ELSE [st EXCEPT !.inQuotes = FALSE]
      [] ~st.skip /\ st.inQuotes /\ char # "\"" ->
            [st EXCEPT !.currentField = Append(@, char)]
      [] ~st.skip /\ ~st.inQuotes /\ char = "\"" -> [st EXCEPT !.inQuotes = TRUE]
      [] ~st.skip /\ ~st.inQuotes /\ char = "," ->
            [st EXCEPT !.currentRow = Append(@, st.currentField),
                       !.currentField = <<>>]
      [] ~st.skip /\ ~st.inQuotes /\ char = "\n" ->
            [st EXCEPT !.rows = Append(@, Append(st.currentRow, st.currentField)),
                       !.currentRow = <<>>,
                       !.currentField = <<>>]
      [] ~st.skip /\ ~st.inQuotes /\ char = "\r" -> st
      [] OTHER -> [st EXCEPT !.currentField = Append(@, char)]

\* the for loop of lines 26-68 over text[lo..hi]: the first half of the
\* range, then the second half from the state the first half left (the test
\* on left.inQuotes only makes the first half be evaluated before the second
\* starts, which keeps the evaluation shallow on long texts)
RECURSIVE ScanRange(_, _, _, _)
ScanRange(st, text, lo, hi) ==
    IF lo > hi THEN st
    ELSE IF lo = hi THEN ScanChar(st, text, lo)
    ELSE LET mid == (lo + hi) \div 2
             left == ScanRange(st, text, lo, mid)
         IN IF left.inQuotes \in BOOLEAN
            THEN ScanRange(left, text, mid + 1, hi)
            ELSE left

\* a faulty variant: a field whose quote is still open is not flushed
ScanFlush_ClosedOnly(st) ==
    IF st.inQuotes THEN st.rows
    ELSE IF Len(st.currentField) > 0 \/ Len(st.currentRow) > 0
    THEN Append(st.rows, Append(st.currentRow, st.currentField))
    ELSE st.rows

\* the flush of lines 70-73
ScanFlush(st) ==
    IF Len(st.currentField) > 0 \/ Len(st.currentRow) > 0
    THEN Append(st.rows, Append(st.currentRow, st.currentField))
    ELSE st.rows

\* row.some((cell) => cell.trim() !== '')
HasContent(row) == \E k \in 1..Len(row) : Trim(row[k]) # <<>>

\* a faulty variant: blank rows are kept
FilterRows_KeepsAll(rows) == rows

RECURSIVE FilterRows(_)
FilterRows(rows) ==
    IF rows = <<>> THEN <<>>
    ELSE IF HasContent(Head(rows)) THEN <<Head(rows)>> \o FilterRows(Tail(rows))
    ELSE FilterRows(Tail(rows))

parseCsv(text) == FilterRows(ScanFlush(ScanRange(ScanStart, text, 1, Len(text))))

(***************************************************************************)
(* Column labels and their detection (lines 78, 181-184).                  *)
(***************************************************************************)
UpperChars == <<"A", "B", "C", "D", "E", "F", "G", "H", "I", "J", "K", "L", "M",
                "N", "O", "P", "Q", "R", "S", "T", "U", "V", "W", "X", "Y", "Z">>
LowerChars == <<"a", "b", "c", "d", "e", "f", "g", "h", "i", "j", "k", "l", "m",
                "n", "o", "p", "q", "r", "s", "t", "u", "v", "w", "x", "y", "z">>

ToLowerChar(c) ==
    IF \E k \in 1..26 : UpperChars[k] = c
    THEN LowerChars[CHOOSE k \in 1..26 : UpperChars[k] = c]
    ELSE c

normalizeHeader(value) ==
    LET t == Trim(value) IN [k \in 1..Len(t) |-> ToLowerChar(t[k])]

\* String.prototype.includes
Includes(label, matcher) ==
    \E k \in 0..(Len(label) - Len(matcher)) :
        SubSeq(label, k + 1, k + Len(matcher)) = matcher

\* a faulty variant: the last matching label wins
detectColumnIndex_LastMatch(labels, matchers) ==
    LET hits == { k \in 1..Len(labels) :
                      \E m \in matchers : Includes(normalizeHeader(labels[k]), m) }
    IN IF hits = {} THEN -1
       ELSE (CHOOSE k \in hits : \A j \in hits : k >= j) - 1

\* Array.prototype.findIndex, 0-based, -1 when no label matches
detectColumnIndex(labels, matchers) ==
    LET hits == { k \in 1..Len(labels) :
                      \E m \in matchers : Includes(normalizeHeader(labels[k]), m) }
    IN IF hits = {} THEN -1
       ELSE (CHOOSE k \in hits : \A j \in hits : k <= j) - 1

W_date == <<"d", "a", "t", "e">>
W_posting == <<"p", "o", "s", "t", "i", "n", "g">>
W_transaction == <<"t", "r", "a", "n", "s", "a", "c", "t", "i", "o", "n">>
W_balance == <<"b", "a", "l", "a", "n", "c", "e">>
W_ending == <<"e", "n", "d", "i", "n", "g">>
W_closing == <<"c", "l", "o", "s", "i", "n", "g">>
W_running == <<"r", "u", "n", "n", "i", "n", "g">>
W_amount == <<"a", "m", "o", "u", "n", "t">>
W_debit == <<"d", "e", "b", "i", "t">>
W_credit == <<"c", "r", "e", "d", "i", "t">>
W_withdrawal == <<"w", "i", "t", "h", "d", "r", "a", "w", "a", "l">>
W_deposit == <<"d", "e", "p", "o", "s", "i", "t">>

DateMatchers == {W_date, W_posting, W_transaction \o <<" ">> \o W_date}

BalanceMatchers ==
    {W_balance, W_ending \o <<" ">> \o W_balance,
     W_closing \o <<" ">> \o W_balance, W_running \o <<" ">> \o W_balance}

AmountMatchers ==
    {W_amount, W_transaction, W_debit, W_credit, W_withdrawal, W_deposit}

(***************************************************************************)
(* The component as constructed (useState initial values, lines 189-202).  *)
(***************************************************************************)
NoImport == [outcome |-> "none", entries |-> <<>>, replace |-> FALSE]

ComponentInit ==
    /\ fileName = ""
    /\ rawRows = <<>>
    /\ hasHeaderRow = TRUE
    /\ dateColumnIndex = -1
    /\ balanceColumnIndex = -1
    /\ amountColumnIndex = -1
    /\ selectedAccountId = ""
    /\ dateFormat = "auto"
    /\ statementType = "balance"
    /\ startingBalanceInput = <<>>
    /\ replaceExisting = TRUE
    /\ isImporting = FALSE
    /\ statusMessage = <<>>
    /\ errorMessage = <<>>
    /\ pendingReads = <<>>
    /\ effectPending = FALSE
    /\ lastImport = NoImport

Formats == {"auto", "mdy", "dmy", "ymd"}

(***************************************************************************)
(* SpecDate: the date normalizer applied to one raw text.                  *)
(* The texts are built from three components and two separators:           *)
(*   iso      Y s M s D        numeric  A s B s Y     (s is / or -)        *)
(*   dot      A.B.Y            dotYmd   Y.A.B                              *)
(*   short    A s B s YY       (two-digit year: no syntax of the           *)
(*                              normalizer matches, the generic parse runs)*)
(* optionally padded with blanks.                                          *)
(***************************************************************************)
NumTexts ==
    { <<"0">>, <<"1">>, <<"2">>, <<"0", "2">>, <<"0", "3">>, <<"0", "4">>,
      <<"0", "5">>, <<"1", "2">>, <<"1", "3">>, <<"2", "9">>, <<"3", "0">>,
      <<"3", "1">>, <<"3", "2">> }

YearTexts ==
    { <<"2", "0", "2", "4">>, <<"2", "0", "2", "3">>, <<"1", "9", "0", "0">>,
      <<"2", "0", "0", "0">>, <<"0", "0", "2", "4">> }

ShortYearTexts == { <<"2", "4">>, <<"2", "3">> }

SepPairs == { <<"/", "/">>, <<"-", "-">>, <<"/", "-">> }

DateShapes == {"iso", "numeric", "dot", "dotYmd", "short"}

DateText(shape, a, b, y, seps, pad) ==
    LET core == CASE shape = "iso" -> y \o <<seps[1]>> \o a \o <<seps[2]>> \o b
                  [] shape = "numeric" -> a \o <<seps[1]>> \o b \o <<seps[2]>> \o y
                  [] shape = "dot" -> a \o <<".">> \o b \o <<".">> \o y
                  [] shape = "dotYmd" -> y \o <<".">> \o a \o <<".">> \o b
                  [] shape = "short" -> a \o <<seps[1]>> \o b \o <<seps[2]>> \o y
    IN IF pad THEN <<" ">> \o core \o <<" ", " ">> ELSE core

DateInput(shape, a, b, y, seps, pad, format) ==
    [shape |-> shape, a |-> a, b |-> b, y |-> y, seps |-> seps,
     format |-> format, raw |-> DateText(shape, a, b, y, seps, pad)]

InitDate ==
    /\ ComponentInit
    /\ engine \in Engines
    /\ pc = "date"
    /\ \E shape \in DateShapes, a \in NumTexts, b \in NumTexts,
          seps \in SepPairs, pad \in BOOLEAN, format \in Formats :
          \E y \in (IF shape = "short" THEN ShortYearTexts ELSE YearTexts) :
              input = DateInput(shape, a, b, y, seps, pad, format)
    /\ output = Null

NormalizeDateStep ==
    /\ pc = "date"
    /\ output' = normalizeDate(input.raw, input.format, engine)
    /\ pc' = "dateDone"
    /\ UNCHANGED <<compVars, engine, input>>

NextDate == NormalizeDateStep

SpecDate == InitDate /\ [][NextDate]_vars

(***************************************************************************)
(* The calendar, stated independently of the Date object.                  *)
(***************************************************************************)
IsLeapYear(y) == (y % 4 = 0 /\ y % 100 # 0) \/ y % 400 = 0

DaysInMonth(y, m) ==
    IF m = 2 THEN (IF IsLeapYear(y) THEN 29 ELSE 28)
    ELSE IF m \in {4, 6, 9, 11} THEN 30 ELSE 31

IsCalendarDate(y, m, d) ==
    /\ m >= 1 /\ m <= 12
    /\ d >= 1 /\ d <= DaysInMonth(y, m)

\* the text YYYY-MM-DD of a year in 0..9999
IsoText(y, m, d) ==
    PadDigits(y, 4) \o <<"-">> \o PadDigits(m, 2) \o <<"-">> \o PadDigits(d, 2)

IsoYear(iso) == DigitsValue(SubSeq(iso, 1, 4))
IsoMonth(iso) == DigitsValue(SubSeq(iso, 6, 7))
IsoDay(iso) == DigitsValue(SubSeq(iso, 9, 10))

DateDone == pc = "dateDone"

InA == DigitsValue(input.a)
InB == DigitsValue(input.b)
InY == DigitsValue(input.y)

Txt_02_30_2024 == <<"0", "2", "/", "3", "0", "/", "2", "0", "2", "4">>
Txt_2024_02_29 == <<"2", "0", "2", "4", "-", "0", "2", "-", "2", "9">>
Txt_2023_02_29 == <<"2", "0", "2", "3", "-", "0", "2", "-", "2", "9">>
Txt_13_05_2024 == <<"1", "3", "/", "0", "5", "/", "2", "0", "2", "4">>
Txt_05_13_2024 == <<"0", "5", "/", "1", "3", "/", "2", "0", "2", "4">>
Txt_03_04_2024 == <<"0", "3", "/", "0", "4", "/", "2", "0", "2", "4">>
Txt_2024_03_04 == <<"2", "0", "2", "4", "-", "0", "3", "-", "0", "4">>

(***************************************************************************)
(* C7.  The date normalizer never returns a calendar-invalid date: a       *)
(* present result is a year/month/day that exists in the calendar and is   *)
(* not a rolled-over date, i.e. its month and its day are components of    *)
(* the text and were not produced by carrying an out-of-range day over;    *)
(* "02/30/2024" is rejected under every policy, "2024-02-29" is accepted   *)
(* and "2023-02-29" is rejected.                                           *)
(***************************************************************************)
C7_NeverInvalidNorRolledOver ==
    DateDone =>
        /\ output # Null =>
              /\ Len(output) = 10
              /\ IsCalendarDate(IsoYear(output), IsoMonth(output), IsoDay(output))
              /\ IsoMonth(output) \in {InA, InB, InY}
              /\ IsoDay(output) \in {InA, InB, InY}
        /\ input.raw = Txt_02_30_2024 => output = Null
        /\ input.raw = Txt_2024_02_29 => output = Txt_2024_02_29
        /\ input.raw = Txt_2023_02_29 => output = Null

(***************************************************************************)
(* C8.  Under the auto policy a text A/B/YYYY or A-B-YYYY (A, B of one or  *)
(* two digits) is read as day A, month B when A > 12 and B <= 12, and as   *)
(* month A, day B in every other case; the result is absent when that      *)
(* reading is no calendar date, and a present result is that reading (it   *)
(* is present whenever the reading is a calendar date of a year >= 100).   *)
(* 13/05/2024 and 05/13/2024 give 2024-05-13, 03/04/2024 gives 2024-03-04. *)
(***************************************************************************)
C8_AutoReading ==
    (DateDone /\ input.shape = "numeric" /\ input.format = "auto") =>
        LET dayFirst == InA > 12 /\ InB <= 12
            month == IF dayFirst THEN InB ELSE InA
            day == IF dayFirst THEN InA ELSE InB
        IN /\ ~IsCalendarDate(InY, month, day) => output = Null
           /\ output # Null => output = IsoText(InY, month, day)
           /\ (IsCalendarDate(InY, month, day) /\ InY >= 100) => output # Null
           /\ input.raw = Txt_13_05_2024 => output = IsoText(2024, 5, 13)
           /\ input.raw = Txt_05_13_2024 => output = IsoText(2024, 5, 13)
           /\ input.raw = Txt_03_04_2024 => output = IsoText(2024, 3, 4)

C8_Witness ==
    /\ DateDone /\ input.shape = "numeric" /\ input.format = "auto"
    /\ InA > 12 /\ InB <= 12
    /\ output = IsoText(InY, InB, InA)

(***************************************************************************)
(* C9.  A text YYYY-M-D or YYYY/M/D is read as year, month, day under      *)
(* every format policy: the result does not depend on the policy, a        *)
(* present result is that reading, and it is absent when the reading is    *)
(* no calendar date.  "2024-03-04" is 4 March 2024 under day-month-year.   *)
(***************************************************************************)
C9_IsoIgnoresPolicy ==
    (DateDone /\ input.shape = "iso") =>
        /\ \A f \in Formats : output = normalizeDate(input.raw, f, engine)
        /\ ~IsCalendarDate(InY, InA, InB) => output = Null
        /\ output # Null => output = IsoText(InY, InA, InB)
        /\ (IsCalendarDate(InY, InA, InB) /\ InY >= 100) => output # Null
        /\ input.raw = Txt_2024_03_04 => output = IsoText(2024, 3, 4)

C9_Witness ==
    /\ DateDone /\ input.shape = "iso" /\ input.format = "dmy"
    /\ input.raw = Txt_2024_03_04
    /\ output = IsoText(2024, 3, 4)

(***************************************************************************)
(* C24.  Under the year-month-day policy every text A s B s YYYY, with A   *)
(* and B of one or two digits and s a slash or a hyphen, normalizes to     *)
(* absent: the policy does not read it, and neither another syntax nor the *)
(* generic parse is tried, whatever the engine.                            *)
(***************************************************************************)
C24_YmdRejectsYearLast ==
    (DateDone /\ input.shape = "numeric" /\ input.format = "ymd") =>
        output = Null

\* 03/04/2024 under the year-month-day policy, on the engine whose generic
\* parse would read it: absent
C24_Witness ==
    /\ DateDone /\ input.shape = "numeric" /\ input.format = "ymd"
    /\ engine = "v8"
    /\ input.raw = Txt_03_04_2024
    /\ output = Null

(***************************************************************************)
(* SpecAmount: the amount normalizer applied to one raw text, every text   *)
(* of at most MaxAmountLen characters over AmountChars and the examples.   *)
(***************************************************************************)
MaxAmountLen == 4

AmountChars == {"(", ")", "-", "$", ",", " ", ".", "5", "0", "a"}

Txt_Paren_1234_50 == <<"(", "1", ",", "2", "3", "4", ".", "5", "0", ")">>
Txt_Minus_Dollar_45 == <<"-", "$", "4", "5", ".", "0", "0">>
Txt_Blank == <<" ", " ">>
Txt_Paren_Minus_5 == <<"(", "-", "5", ")">>

AmountExamples == {Txt_Paren_1234_50, Txt_Minus_Dollar_45, Txt_Blank, Txt_Paren_Minus_5}

InitAmount ==
    /\ ComponentInit
    /\ engine = "strict"
    /\ pc = "amount"
    /\ \/ \E n \in 0..MaxAmountLen : \E raw \in [1..n -> AmountChars] :
              input = [raw |-> raw]
       \/ \E raw \in AmountExamples : input = [raw |-> raw]
    /\ output = Null

ParseAmountStep ==
    /\ pc = "amount"
    /\ output' = parseAmount(input.raw)
    /\ pc' = "amountDone"
    /\ UNCHANGED <<compVars, engine, input>>

NextAmount == ParseAmountStep

SpecAmount == InitAmount /\ [][NextAmount]_vars

AmountDone == pc = "amountDone"

\* the two sign markers and the numeral, as the specification words them
WrappedInParens(raw) ==
    LET t == Trim(raw) IN Len(t) >= 2 /\ t[1] = "(" /\ t[Len(t)] = ")"

Unwrapped(raw) ==
    LET t == Trim(raw)
    IN IF WrappedInParens(raw) THEN SubSeq(t, 2, Len(t) - 1) ELSE t

BeginsWithMinus(raw) ==
    LET r == StripMoney(Unwrapped(raw)) IN r # <<>> /\ r[1] = "-"

Numeral(raw) ==
    LET r == StripMoney(Unwrapped(raw))
    IN IF BeginsWithMinus(raw) THEN Tail(r) ELSE r

(***************************************************************************)
(* C10.  A present result is minus the absolute value of the parsed number *)
(* when the trimmed text is wrapped in parentheses or the stripped text    *)
(* begins with "-" (also when it carries both markers, as "(-5)"), and is  *)
(* the parsed number with its own sign when it carries neither.            *)
(* "(1,234.50)" gives -1234.50, "-$45.00" gives -45.00 and a blank text is *)
(* absent.                                                                 *)
(***************************************************************************)
C10_SignMarkers ==
    AmountDone =>
        LET marked == WrappedInParens(input.raw) \/ BeginsWithMinus(input.raw)
            parsed == parseFloat(Numeral(input.raw))
        IN /\ output # Null =>
                 /\ parsed # NaN
                 /\ marked => output = Num(-Abs(parsed[1]))
                 /\ ~marked => output = parsed
           /\ input.raw = Txt_Paren_1234_50 =>
                 output = Num(-(1234 * Unit + (50 * Unit) \div 100))
           /\ input.raw = Txt_Minus_Dollar_45 => output = Num(-(45 * Unit))
           /\ input.raw = Txt_Paren_Minus_5 => output = Num(-(5 * Unit))
           /\ Trim(input.raw) = <<>> => output = Null

C10_Witness ==
    /\ AmountDone
    /\ WrappedInParens(input.raw) /\ BeginsWithMinus(input.raw)
    /\ output # Null /\ output[1] < 0

\* a decimal numeral: an optional sign, digits with at most one point, and
\* at least one digit, with nothing before or after
IsDecimalNumeral(s) ==
    LET body == IF s # <<>> /\ Head(s) \in {"-", "+"} THEN Tail(s) ELSE s
        intPart == DigitPrefix(body)
        rest == SubSeq(body, Len(intPart) + 1, Len(body))
        fracPart == IF rest # <<>> /\ Head(rest) = "." THEN Tail(rest) ELSE rest
    IN /\ AllDigits(fracPart)
       /\ Len(intPart) + Len(fracPart) > 0

Txt_5a == <<"5", "a">>
Txt_Two_Points == <<"5", ".", "5", ".">>

(***************************************************************************)
(* C11.  The result is absent whenever the text left after trimming,       *)
(* unwrapping the parentheses, stripping "$", "," and whitespace and       *)
(* removing a leading "-" is not a decimal numeral as a whole (it has a    *)
(* letter or a second decimal point); a number is returned only for a      *)
(* whole decimal numeral.                                                  *)
(***************************************************************************)
C11_AbsentUnlessNumeral ==
    AmountDone =>
        /\ output # Null => IsDecimalNumeral(Numeral(input.raw))
        /\ input.raw = Txt_5a => output = Null
        /\ input.raw = Txt_Two_Points => output = Null

(***************************************************************************)
(* The tokenizer on its own: a text is tokenized.  The texts are all the   *)
(* short texts over a letter, a space, the comma, the line feed, the       *)
(* carriage return and the double quote, and all short field contents      *)
(* written as one quoted field.                                            *)
(***************************************************************************)
MaxCsvLen == 5
MaxFieldLen == 3

CsvChars == {"a", " ", ",", "\n", "\r", "\""}

\* a field content written as a quoted CSV field: wrapped in double quotes,
\* each inner quote doubled
RECURSIVE DoubleQuotes(_)
DoubleQuotes(content) ==
    IF content = <<>> THEN <<>>
    ELSE IF Head(content) = "\"" THEN <<"\"", "\"">> \o DoubleQuotes(Tail(content))
    ELSE <<Head(content)>> \o DoubleQuotes(Tail(content))

QuoteField(content) == <<"\"">> \o DoubleQuotes(content) \o <<"\"">>

Txt_Comma_Newline_Quote == <<"a", ",", "\n", "\"", "a">>

\* what stands before a quote that is opened and never closed: nothing, the
\* start of a field, a field, a line
OpenPrefixes == {<<>>, <<"a">>, <<"a", ",">>, <<"a", "\n">>, <<" ", ",">>}

InitCsv ==
    /\ ComponentInit
    /\ engine = "strict"
    /\ pc = "csv"
    /\ \/ \E n \in 0..MaxCsvLen : \E text \in [1..n -> CsvChars] :
              input = [kind |-> "text", text |-> text]
       \/ \E n \in 0..MaxFieldLen : \E content \in [1..n -> CsvChars] :
              input = [kind |-> "field", text |-> QuoteField(content),
                       content |-> content]
       \/ input = [kind |-> "field", text |-> QuoteField(Txt_Comma_Newline_Quote),
                   content |-> Txt_Comma_Newline_Quote]
       \/ \E prefix \in OpenPrefixes :
              \E n \in 0..MaxFieldLen : \E content \in [1..n -> CsvChars] :
                  input = [kind |-> "open",
                           text |-> prefix \o <<"\"">> \o DoubleQuotes(content),
                           prefix |-> prefix, content |-> content]
    /\ output = Null

ParseCsvStep ==
    /\ pc = "csv"
    /\ output' = parseCsv(input.text)
    /\ pc' = "csvDone"
    /\ UNCHANGED <<compVars, engine, input>>

NextCsv == ParseCsvStep

SpecCsv == InitCsv /\ [][NextCsv]_vars

CsvDone == pc = "csvDone"

FieldDone == CsvDone /\ input.kind = "field"

TextDone == CsvDone /\ input.kind = "text"

HasChar(s, c) == \E i \in 1..Len(s) : s[i] = c

\* the content has a character that trimming leaves
NonBlank(content) == Trim(content) # <<>>

(***************************************************************************)
(* C12 as stated.  Every field content of ordinary characters, commas,     *)
(* line feeds and double quotes, written as a quoted field, tokenizes to   *)
(* exactly one row of exactly one field equal to the content.              *)
(***************************************************************************)
C12_RoundTripEveryContent ==
    (FieldDone /\ ~HasChar(input.content, "\r")) => output = <<<<input.content>>>>

(***************************************************************************)
(* C12, amended.  Every field content of ordinary characters, commas, line *)
(* feeds and double quotes that is not blank (it has a character other     *)
(* than whitespace), written as a quoted field, tokenizes to exactly one   *)
(* row of exactly one field equal to the content; a blank content (empty,  *)
(* or only spaces and line feeds) gives no row at all.                     *)
(***************************************************************************)
C12_RoundTripNonBlank ==
    (FieldDone /\ ~HasChar(input.content, "\r")) =>
        /\ NonBlank(input.content) => output = <<<<input.content>>>>
        /\ ~NonBlank(input.content) => output = <<>>

\* the content with a comma, a line feed and an escaped quote came back as
\* one field
C12_Witness ==
    /\ FieldDone
    /\ input.content = Txt_Comma_Newline_Quote
    /\ output = <<<<Txt_Comma_Newline_Quote>>>>

\* the text without the character c
RECURSIVE WithoutChar(_, _)
WithoutChar(s, c) ==
    IF s = <<>> THEN <<>>
    ELSE IF Head(s) = c THEN WithoutChar(Tail(s), c)
    ELSE <<Head(s)>> \o WithoutChar(Tail(s), c)

\* some field of some row has the character c
SomeFieldHas(rows, c) ==
    \E r \in 1..Len(rows) : \E k \in 1..Len(rows[r]) : HasChar(rows[r][k], c)

(***************************************************************************)
(* C13 as stated.  A carriage return is ignored wherever it occurs, inside *)
(* or outside a quoted field: no field of a returned row contains one, and *)
(* removing every carriage return from the text before tokenizing gives    *)
(* the same rows.                                                          *)
(***************************************************************************)
C13_EveryCRIgnored ==
    CsvDone =>
        /\ ~SomeFieldHas(output, "\r")
        /\ parseCsv(WithoutChar(input.text, "\r")) = output

(***************************************************************************)
(* C13, amended.  A carriage return outside a quoted field is ignored: for *)
(* every text without double quotes no field of a returned row contains a  *)
(* carriage return, and removing every carriage return before tokenizing   *)
(* gives the same rows.  A carriage return inside a quoted field is kept   *)
(* as content of the field.                                                *)
(***************************************************************************)
C13_CRIgnoredOutsideQuotes ==
    /\ (CsvDone /\ ~HasChar(input.text, "\"")) =>
           /\ ~SomeFieldHas(output, "\r")
           /\ parseCsv(WithoutChar(input.text, "\r")) = output
    /\ (FieldDone /\ NonBlank(input.content)) => output = <<<<input.content>>>>

\* a text without quotes whose carriage return sits in the middle of a row
\* that was returned
C13_Witness ==
    /\ TextDone
    /\ ~HasChar(input.text, "\"")
    /\ \E i \in 2..(Len(input.text) - 1) :
           /\ input.text[i] = "\r"
           /\ input.text[i - 1] = "a"
           /\ input.text[i + 1] = "a"
    /\ output # <<>>

\* the text with every line feed replaced by the line ending eol
RECURSIVE WithLineEnding(_, _)
WithLineEnding(s, eol) ==
    IF s = <<>> THEN <<>>
    ELSE IF Head(s) = "\n" THEN eol \o WithLineEnding(Tail(s), eol)
    ELSE <<Head(s)>> \o WithLineEnding(Tail(s), eol)

CRLF == <<"\r", "\n">>
CR == <<"\r">>

(***************************************************************************)
(* C14.  Line-ending transparency: for every text without quoted fields    *)
(* (and whose only line ending is the line feed), the same text with each  *)
(* line feed replaced by CR LF, or by a lone CR, tokenizes to the same     *)
(* rows and fields.                                                        *)
(***************************************************************************)
C14_LineEndingTransparency ==
    (TextDone /\ ~HasChar(input.text, "\"") /\ ~HasChar(input.text, "\r")) =>
        /\ parseCsv(WithLineEnding(input.text, CRLF)) = output
        /\ parseCsv(WithLineEnding(input.text, CR)) = output

\* a field of nothing but white space
BlankField(f) == \A i \in 1..Len(f) : IsSpace(f[i])

\* the lines of a text that has no quoted field, each cut at its commas
LinesOf(text) ==
    LET lines == SplitOn(text, {"\n"})
    IN [k \in 1..Len(lines) |-> SplitOn(lines[k], {","})]

\* the rows that have a field with something in it, in their order
RECURSIVE RowsWithContent(_)
RowsWithContent(rows) ==
    IF rows = <<>> THEN <<>>
    ELSE IF \A k \in 1..Len(Head(rows)) : BlankField(Head(rows)[k])
         THEN RowsWithContent(Tail(rows))
         ELSE <<Head(rows)>> \o RowsWithContent(Tail(rows))

PlainText == ~HasChar(input.text, "\"") /\ ~HasChar(input.text, "\r")

Txt_Blank_Line_Between == <<"a", "\n", "\n", "a">>

(***************************************************************************)
(* C15.  Every row the tokenizer returns has a field that is not blank     *)
(* after trimming; of the lines of a text without quoted fields, those     *)
(* made of blank fields only are dropped and the others are returned in    *)
(* their order with their fields unchanged; a newline added at the end of  *)
(* the input adds no row, and a last line without a newline is returned.   *)
(***************************************************************************)
C15_BlankRowsDropped ==
    /\ CsvDone =>
           \A r \in 1..Len(output) :
               \E k \in 1..Len(output[r]) : ~BlankField(output[r][k])
    /\ (TextDone /\ PlainText) =>
           /\ output = RowsWithContent(LinesOf(input.text))
           /\ parseCsv(input.text \o <<"\n">>) = output
           /\ LET lines == LinesOf(input.text)
                  last == lines[Len(lines)]
              IN (\E k \in 1..Len(last) : ~BlankField(last[k])) =>
                     /\ output # <<>>
                     /\ output[Len(output)] = last
    /\ FieldDone => parseCsv(input.text \o <<"\n">>) = output

\* a blank line between two lines, no newline at the end: two rows came back
C15_Witness ==
    /\ TextDone
    /\ input.text = Txt_Blank_Line_Between
    /\ output = <<<<<<"a">>>>, <<<<"a">>>>>>

OpenDone == CsvDone /\ input.kind = "open"

\* the rows of a text whose last field has its quote open: the lines of the
\* prefix, the last field of the last line continued by the content
OpenRows ==
    LET lines == LinesOf(input.prefix)
        last == lines[Len(lines)]
    IN [lines EXCEPT ![Len(lines)] =
            [last EXCEPT ![Len(last)] = last[Len(last)] \o input.content]]

OpenLastRow == OpenRows[Len(OpenRows)]

\* C25 as stated, for every content: the field with the open quote holds
\* every character after the quote and is the last field of the last row
\* returned
C25_OpenQuoteAlwaysFlushed ==
    OpenDone =>
        /\ output # <<>>
        /\ output[Len(output)] = OpenLastRow

(***************************************************************************)
(* C25.  Unterminated quote: every character after a quote that is opened  *)
(* and never closed, commas and newlines included and a doubled quote      *)
(* counted as one quote, becomes content of that one field, and the        *)
(* tokenizer returns normally; the field is the last field of the last row *)
(* returned whenever that row has a field that is not blank; otherwise the *)
(* row is dropped like every blank row.                                    *)
(***************************************************************************)
C25_OpenQuoteConsumesRest ==
    OpenDone =>
        /\ output = RowsWithContent(OpenRows)
        /\ (\E k \in 1..Len(OpenLastRow) : ~BlankField(OpenLastRow[k])) =>
               /\ output # <<>>
               /\ output[Len(output)] = OpenLastRow

\* after the field a, a quote is opened and followed by a comma, a newline
\* and a doubled quote: one row of two fields, the second one holding them
C25_Witness ==
    /\ OpenDone
    /\ input.prefix = <<"a", ",">>
    /\ input.content = <<",", "\n", "\"">>
    /\ output = << <<<<"a">>, <<",", "\n", "\"">>>> >>

(***************************************************************************)
(* Rows, deduplication and import entries (the useMemo chain, lines        *)
(* 288-358), as functions of their dependencies.                           *)
(***************************************************************************)
\* String.prototype.localeCompare on ISO date texts: character by character,
\* a sign before a digit, a prefix before its extensions
CharRank(c) == IF c = "+" THEN 0 ELSE IF c = "-" THEN 1 ELSE 2 + DigitValue(c)

RECURSIVE localeCompare(_, _)
localeCompare(a, b) ==
    IF a = <<>> /\ b = <<>> THEN 0
    ELSE IF a = <<>> THEN -1
    ELSE IF b = <<>> THEN 1
    ELSE IF CharRank(Head(a)) < CharRank(Head(b)) THEN -1
    ELSE IF CharRank(Head(a)) > CharRank(Head(b)) THEN 1
    ELSE localeCompare(Tail(a), Tail(b))

\* Array.prototype.sort with the comparator of lines 305-308 and 327 (the
\* sort is stable): insertion of each element after the last one that does
\* not compare greater
RECURSIVE InsertByDate(_, _)
InsertByDate(sorted, row) ==
    IF sorted = <<>> THEN <<row>>
    ELSE LET last == sorted[Len(sorted)]
             cmp == IF last.dateIso = Null \/ row.dateIso = Null THEN 0
                    ELSE localeCompare(last.dateIso, row.dateIso)
         IN IF cmp <= 0 THEN Append(sorted, row)
            ELSE Append(InsertByDate(SubSeq(sorted, 1, Len(sorted) - 1), row), last)

\* a faulty variant: the map's insertion order is kept
sortByDate_InsertionOrder(rows) == rows

RECURSIVE sortByDate(_)
sortByDate(rows) ==
    IF rows = <<>> THEN <<>>
    ELSE InsertByDate(sortByDate(SubSeq(rows, 1, Len(rows) - 1)), rows[Len(rows)])

\* A Map is the sequence of its [key, value] entries in insertion order.
MapHas(map, key) == \E i \in 1..Len(map) : map[i].key = key

MapGet(map, key) == map[CHOOSE i \in 1..Len(map) : map[i].key = key].value

\* Map.prototype.set: a key that is present keeps its place
MapSet(map, key, value) ==
    IF MapHas(map, key)
    THEN [i \in 1..Len(map) |->
             IF map[i].key = key THEN [key |-> key, value |-> value] ELSE map[i]]
    ELSE Append(map, [key |-> key, value |-> value])

MapValues(map) == [i \in 1..Len(map) |-> map[i].value]

\* row.dateIso && row.amount !== null
IsValidRow(row) == row.dateIso # Null /\ row.amount # Null

\* a faulty variant: invalid rows are passed on as well
validRowsOf_KeepsAll(rows) == rows

RECURSIVE validRowsOf(_)
validRowsOf(rows) ==
    IF rows = <<>> THEN <<>>
    ELSE IF IsValidRow(Head(rows)) THEN <<Head(rows)>> \o validRowsOf(Tail(rows))
    ELSE validRowsOf(Tail(rows))

\* a faulty variant: the first row of a date is kept
RECURSIVE balanceFold_FirstWins(_)
balanceFold_FirstWins(rows) ==
    IF rows = <<>> THEN [map |-> <<>>, duplicateCount |-> 0]
    ELSE LET acc == balanceFold_FirstWins(SubSeq(rows, 1, Len(rows) - 1))
             row == rows[Len(rows)]
         IN IF row.dateIso = Null THEN acc
            ELSE IF MapHas(acc.map, row.dateIso)
                 THEN [acc EXCEPT !.duplicateCount = @ + 1]
            ELSE [acc EXCEPT !.map = MapSet(acc.map, row.dateIso, row)]

\* the forEach of lines 296-302: [map, duplicateCount] after the rows
RECURSIVE balanceFold(_)
balanceFold(rows) ==
    IF rows = <<>> THEN [map |-> <<>>, duplicateCount |-> 0]
    ELSE LET acc == balanceFold(SubSeq(rows, 1, Len(rows) - 1))
             row == rows[Len(rows)]
         IN IF row.dateIso = Null THEN acc
            ELSE [map |-> MapSet(acc.map, row.dateIso, row),
                  duplicateCount |-> acc.duplicateCount
                      + (IF MapHas(acc.map, row.dateIso) THEN 1 ELSE 0)]

\* a faulty variant: a later row replaces the entry of its date
RECURSIVE transactionsFold_Overwrite(_)
transactionsFold_Overwrite(rows) ==
    IF rows = <<>> THEN [map |-> <<>>, duplicateCount |-> 0]
    ELSE LET acc == transactionsFold_Overwrite(SubSeq(rows, 1, Len(rows) - 1))
             row == rows[Len(rows)]
         IN IF row.dateIso = Null \/ row.amount = Null THEN acc
            ELSE [map |-> MapSet(acc.map, row.dateIso,
                                 [dateIso |-> row.dateIso, amount |-> row.amount]),
                  duplicateCount |-> acc.duplicateCount
                      + (IF MapHas(acc.map, row.dateIso) THEN 1 ELSE 0)]

\* the forEach of lines 315-324
RECURSIVE transactionsFold(_)
transactionsFold(rows) ==
    IF rows = <<>> THEN [map |-> <<>>, duplicateCount |-> 0]
    ELSE LET acc == transactionsFold(SubSeq(rows, 1, Len(rows) - 1))
             row == rows[Len(rows)]
             previous == IF MapHas(acc.map, row.dateIso)
                         THEN MapGet(acc.map, row.dateIso).amount[1] ELSE 0
         IN IF row.dateIso = Null \/ row.amount = Null THEN acc
            ELSE [map |-> MapSet(acc.map, row.dateIso,
                                 [dateIso |-> row.dateIso,
                                  amount |-> Num(previous + row.amount[1])]),
                  duplicateCount |-> acc.duplicateCount
                      + (IF MapHas(acc.map, row.dateIso) THEN 1 ELSE 0)]

\* a faulty variant: the duplicates are not counted
dedupedRowsOf_NoDuplicateCount(valid, type) ==
    LET acc == IF type = "balance" THEN balanceFold(valid)
               ELSE transactionsFold(valid)
    IN [rows |-> sortByDate(MapValues(acc.map)),
        duplicateCount |-> 0]

dedupedRowsOf(valid, type) ==
    LET acc == IF type = "balance" THEN balanceFold(valid)
               ELSE transactionsFold(valid)
    IN [rows |-> sortByDate(MapValues(acc.map)),
        duplicateCount |-> acc.duplicateCount]

\* a faulty variant: a missing starting balance counts as 0
startingBalanceOf_AssumesZero(type, text) ==
    IF type # "transactions" THEN Null
    ELSE IF parseAmount(text) = Null THEN Num(0)
    ELSE parseAmount(text)

startingBalanceOf(type, text) ==
    IF type = "transactions" THEN parseAmount(text) ELSE Null

\* new Date(iso) of a date-only ISO text, as a day number (UTC midnight)
DateOfIso(iso) ==
    IF Head(iso) \in {"+", "-"}
    THEN DaysFromCivil((IF Head(iso) = "-" THEN -1 ELSE 1)
                           * DigitsValue(SubSeq(iso, 2, 7)),
                       DigitsValue(SubSeq(iso, 9, 10)),
                       DigitsValue(SubSeq(iso, 12, 13)))
    ELSE DaysFromCivil(DigitsValue(SubSeq(iso, 1, 4)),
                       DigitsValue(SubSeq(iso, 6, 7)),
                       DigitsValue(SubSeq(iso, 9, 10)))

\* row.amount ?? 0
AmountOrZero(row) == IF row.amount = Null THEN 0 ELSE row.amount[1]

\* a faulty variant: the entry carries the day's movement only
runningBalance_Delta(start, rows, k) ==
    IF k = 1 THEN start + AmountOrZero(rows[k]) ELSE AmountOrZero(rows[k])

\* the running balance after the first k deduped rows (lines 349-351)
RECURSIVE runningBalance(_, _, _)
runningBalance(start, rows, k) ==
    IF k = 0 THEN start
    ELSE runningBalance(start, rows, k - 1) + AmountOrZero(rows[k])

importEntriesOf(rows, accountId, type, start) ==
    IF accountId = "" THEN <<>>
    ELSE IF type = "balance"
    THEN [k \in 1..Len(rows) |->
             [accountId |-> accountId,
              amount |-> AmountOrZero(rows[k]),
              date |-> DateOfIso(rows[k].dateIso)]]
    ELSE IF start = Null THEN <<>>
    ELSE [k \in 1..Len(rows) |->
             [accountId |-> accountId,
              amount |-> runningBalance(start[1], rows, k),
              date |-> DateOfIso(rows[k].dateIso)]]

(***************************************************************************)
(* SpecDedup: rows -> valid rows -> deduped rows -> import entries, for    *)
(* every sequence of at most MaxRows normalized rows (valid and invalid)   *)
(* and every configuration of DedupConfigs.                                *)
(***************************************************************************)
MaxRows == 3

Day_2023_12_31 == <<"2", "0", "2", "3", "-", "1", "2", "-", "3", "1">>
Day_2024_01_05 == <<"2", "0", "2", "4", "-", "0", "1", "-", "0", "5">>
Day_2024_01_06 == <<"2", "0", "2", "4", "-", "0", "1", "-", "0", "6">>

DedupDates == {Day_2024_01_05, Day_2024_01_06, Day_2023_12_31}

DedupAmounts == {50 * Unit, -20 * Unit, 100 * Unit}

RowKinds ==
    { [dateIso |-> d, amount |-> Num(a)] : d \in DedupDates, a \in DedupAmounts }
    \cup { [dateIso |-> Null, amount |-> Num(50 * Unit)],
           [dateIso |-> Day_2024_01_05, amount |-> Null] }

\* the balance-mode example of the specification: 100 then 150 on one day
ExampleBalanceRows ==
    << [dateIso |-> Day_2024_01_05, amount |-> Num(100 * Unit)],
       [dateIso |-> Day_2024_01_05, amount |-> Num(150 * Unit)] >>

Txt_1000 == <<"1", "0", "0", "0">>
Txt_Letter == <<"a">>

DedupConfigs ==
    { [statementType |-> "balance", selectedAccountId |-> "", text |-> <<>>],
      [statementType |-> "balance", selectedAccountId |-> "acc1", text |-> <<>>],
      [statementType |-> "balance", selectedAccountId |-> "acc1", text |-> Txt_1000],
      [statementType |-> "transactions", selectedAccountId |-> "", text |-> Txt_1000],
      [statementType |-> "transactions", selectedAccountId |-> "acc1", text |-> <<>>],
      [statementType |-> "transactions", selectedAccountId |-> "acc1", text |-> Txt_Blank],
      [statementType |-> "transactions", selectedAccountId |-> "acc1", text |-> Txt_Letter],
      [statementType |-> "transactions", selectedAccountId |-> "acc1", text |-> Txt_1000] }

\* rowIndex as line 279 gives it with a header row
NumberedRows(cells) ==
    [i \in 1..Len(cells) |->
        [rowIndex |-> i + 1, dateIso |-> cells[i].dateIso, amount |-> cells[i].amount]]

InitDedup ==
    /\ ComponentInit
    /\ engine = "strict"
    /\ pc = "dedup"
    /\ \E cfg \in DedupConfigs :
          \/ \E n \in 0..MaxRows : \E cells \in [1..n -> RowKinds] :
                 input = [rows |-> NumberedRows(cells), cfg |-> cfg]
          \/ input = [rows |-> NumberedRows(ExampleBalanceRows), cfg |-> cfg]
    /\ output = Null

DedupStep ==
    /\ pc = "dedup"
    /\ LET valid == validRowsOf(input.rows)
           deduped == dedupedRowsOf(valid, input.cfg.statementType)
           start == startingBalanceOf(input.cfg.statementType, input.cfg.text)
       IN output' = [validRows |-> valid,
                     dedupedRows |-> deduped,
                     startingBalance |-> start,
                     importEntries |->
                         importEntriesOf(deduped.rows, input.cfg.selectedAccountId,
                                         input.cfg.statementType, start)]
    /\ pc' = "dedupDone"
    /\ UNCHANGED <<compVars, engine, input>>

NextDedup == DedupStep

SpecDedup == InitDedup /\ [][NextDedup]_vars

DedupDone == pc = "dedupDone"

\* the input of the deduplicator, read off the rows independently of it
ValidIdx ==
    { i \in 1..Len(input.rows) :
          input.rows[i].dateIso # Null /\ input.rows[i].amount # Null }

ValidDates == { input.rows[i].dateIso : i \in ValidIdx }

IdxOfDate(d) == { i \in ValidIdx : input.rows[i].dateIso = d }

LastIdxOfDate(d) == CHOOSE i \in IdxOfDate(d) : \A j \in IdxOfDate(d) : j <= i

\* the valid rows whose date already occurred in an earlier valid row
SeenBeforeIdx ==
    { i \in ValidIdx :
          \E j \in ValidIdx : j < i /\ input.rows[j].dateIso = input.rows[i].dateIso }

RECURSIVE SumAmounts(_)
SumAmounts(idx) ==
    IF idx = {} THEN 0
    ELSE LET i == CHOOSE x \in idx : TRUE
         IN input.rows[i].amount[1] + SumAmounts(idx \ {i})

\* chronological key of an ISO date text
DateKey(iso) == IsoYear(iso) * 10000 + IsoMonth(iso) * 100 + IsoDay(iso)

DayNumber(iso) == DaysFromCivil(IsoYear(iso), IsoMonth(iso), IsoDay(iso))

(***************************************************************************)
(* C1.  Balance mode: for each distinct date of the valid rows the         *)
(* deduplicator emits the row that carries that date LAST in input order   *)
(* (its amount), and duplicateCount is the number of valid rows whose date *)
(* was already seen earlier.  100 then 150 on 2024-01-05 give one entry    *)
(* {2024-01-05, 150} and duplicateCount = 1.                               *)
(***************************************************************************)
C1_BalanceLastWins ==
    (DedupDone /\ input.cfg.statementType = "balance") =>
        LET out == output.dedupedRows IN
        /\ \A d \in ValidDates :
              \E k \in 1..Len(out.rows) :
                  /\ out.rows[k].dateIso = d
                  /\ out.rows[k].amount = input.rows[LastIdxOfDate(d)].amount
                  /\ out.rows[k].rowIndex = input.rows[LastIdxOfDate(d)].rowIndex
        /\ out.duplicateCount = Cardinality(SeenBeforeIdx)
        /\ input.rows = NumberedRows(ExampleBalanceRows) =>
              /\ Len(out.rows) = 1
              /\ out.rows[1].dateIso = Day_2024_01_05
              /\ out.rows[1].amount = Num(150 * Unit)
              /\ out.duplicateCount = 1

C1_Witness ==
    /\ DedupDone /\ input.cfg.statementType = "balance"
    /\ input.rows = NumberedRows(ExampleBalanceRows)
    /\ output.dedupedRows.rows[1].amount = Num(150 * Unit)
    /\ output.dedupedRows.duplicateCount = 1

(***************************************************************************)
(* C2.  Transactions mode: for each distinct date the deduplicator emits   *)
(* the sum of the amounts of all valid rows of that date, and              *)
(* duplicateCount is the number of valid rows whose date was already seen  *)
(* earlier (three rows of one date count 2).                               *)
(***************************************************************************)
C2_TransactionsSum ==
    (DedupDone /\ input.cfg.statementType = "transactions") =>
        LET out == output.dedupedRows IN
        /\ \A d \in ValidDates :
              \E k \in 1..Len(out.rows) :
                  /\ out.rows[k].dateIso = d
                  /\ out.rows[k].amount = Num(SumAmounts(IdxOfDate(d)))
        /\ out.duplicateCount = Cardinality(SeenBeforeIdx)

C2_Witness ==
    /\ DedupDone /\ input.cfg.statementType = "transactions"
    /\ Cardinality(ValidIdx) = 3 /\ Cardinality(ValidDates) = 1
    /\ \E i \in ValidIdx, j \in ValidIdx :
           input.rows[i].amount # input.rows[j].amount
    /\ output.dedupedRows.duplicateCount = 2
    /\ output.dedupedRows.rows[1].amount = Num(SumAmounts(ValidIdx))

(***************************************************************************)
(* C3.  In both modes the output of the deduplicator has strictly          *)
(* increasing dates and exactly one entry for each distinct date of the    *)
(* valid rows, whatever the order of the input rows.                       *)
(***************************************************************************)
C3_OneEntryPerDateAscending ==
    DedupDone =>
        LET rows == output.dedupedRows.rows IN
        /\ \A k \in 1..(Len(rows) - 1) :
              DateKey(rows[k].dateIso) < DateKey(rows[k + 1].dateIso)
        /\ { rows[k].dateIso : k \in 1..Len(rows) } = ValidDates
        /\ Len(rows) = Cardinality(ValidDates)

C3_Witness ==
    /\ DedupDone
    /\ Len(input.rows) = 3 /\ Cardinality(ValidDates) = 3
    /\ DateKey(input.rows[1].dateIso) > DateKey(input.rows[2].dateIso)
    /\ DateKey(input.rows[2].dateIso) > DateKey(input.rows[3].dateIso)
    /\ Len(output.dedupedRows.rows) = 3
    /\ output.dedupedRows.rows[1].dateIso = input.rows[3].dateIso

(***************************************************************************)
(* C4.  Transactions mode, an account selected and a starting balance S    *)
(* present: the import entries are in ascending date order, one per        *)
(* distinct date, and the amount of each is S plus the sum of all          *)
(* movements dated on or before its date (the running balance, not the     *)
(* delta).  S = 1000, day1 +50, day1 -20, day2 +100 give 1030 and 1130.    *)
(***************************************************************************)
C4_RunningBalance ==
    (/\ DedupDone
     /\ input.cfg.statementType = "transactions"
     /\ input.cfg.selectedAccountId # ""
     /\ parseAmount(input.cfg.text) # Null) =>
        LET entries == output.importEntries
            S == parseAmount(input.cfg.text)[1]
            upTo(day) == { i \in ValidIdx : DayNumber(input.rows[i].dateIso) <= day }
        IN /\ Len(entries) = Cardinality(ValidDates)
           /\ { entries[k].date : k \in 1..Len(entries) }
                 = { DayNumber(d) : d \in ValidDates }
           /\ \A k \in 1..(Len(entries) - 1) : entries[k].date < entries[k + 1].date
           /\ \A k \in 1..Len(entries) :
                 /\ entries[k].accountId = input.cfg.selectedAccountId
                 /\ entries[k].amount = S + SumAmounts(upTo(entries[k].date))
           /\ ( /\ input.cfg.text = Txt_1000
                /\ Len(input.rows) = 3
                /\ input.rows[1].dateIso = Day_2024_01_05
                /\ input.rows[1].amount = Num(50 * Unit)
                /\ input.rows[2].dateIso = Day_2024_01_05
                /\ input.rows[2].amount = Num(-20 * Unit)
                /\ input.rows[3].dateIso = Day_2024_01_06
                /\ input.rows[3].amount = Num(100 * Unit) ) =>
                 /\ Len(entries) = 2
                 /\ entries[1].date = DayNumber(Day_2024_01_05)
                 /\ entries[1].amount = 1030 * Unit
                 /\ entries[2].date = DayNumber(Day_2024_01_06)
                 /\ entries[2].amount = 1130 * Unit

C4_Witness ==
    /\ DedupDone
    /\ input.cfg.statementType = "transactions"
    /\ input.cfg.selectedAccountId = "acc1"
    /\ input.cfg.text = Txt_1000
    /\ Len(output.importEntries) = 2
    /\ output.importEntries[1].amount = 1030 * Unit
    /\ output.importEntries[2].amount = 1130 * Unit

(***************************************************************************)
(* C5.  Transactions mode: when the starting-balance text is empty or does *)
(* not parse to an amount, the list of import entries is empty whatever    *)
(* the rows are; no opening balance is assumed.                            *)
(***************************************************************************)
C5_NoStartingBalanceNoEntries ==
    (/\ DedupDone
     /\ input.cfg.statementType = "transactions"
     /\ (Trim(input.cfg.text) = <<>> \/ parseAmount(input.cfg.text) = Null)) =>
        output.importEntries = <<>>

C5_Witness ==
    /\ DedupDone
    /\ input.cfg.statementType = "transactions"
    /\ input.cfg.selectedAccountId = "acc1"
    /\ input.cfg.text = Txt_Letter
    /\ Len(output.dedupedRows.rows) = 2
    /\ output.importEntries = <<>>

\* the rearrangements of n rows, for every n up to MaxRows
Rearrangements ==
    [n \in 0..MaxRows |->
        { p \in [1..n -> 1..n] : \A i \in 1..n : \A j \in 1..n : p[i] = p[j] => i = j }]

Permuted(rows, p) == [i \in 1..Len(rows) |-> rows[p[i]]]

\* p leaves the rows of one date in the order they had
KeepsOrderWithinDate(rows, p) ==
    \A i \in 1..Len(rows) : \A j \in 1..Len(rows) :
        (i < j /\ rows[p[i]].dateIso = rows[p[j]].dateIso) => p[i] < p[j]

AllRowsValid == ValidIdx = 1..Len(input.rows)

\* an account and a starting balance are given, so that the import entries
\* exist in both modes (the deduplicator reads neither)
EntriesConfigured == input.cfg.selectedAccountId = "acc1" /\ input.cfg.text = Txt_1000

\* what the pipeline of DedupStep gives for the rows in another order
ResultOf(rows) ==
    LET deduped == dedupedRowsOf(validRowsOf(rows), input.cfg.statementType)
    IN [dedupedRows |-> deduped,
        importEntries |->
            importEntriesOf(deduped.rows, input.cfg.selectedAccountId,
                            input.cfg.statementType,
                            startingBalanceOf(input.cfg.statementType, input.cfg.text))]

(***************************************************************************)
(* C27.  Transactions mode: for every sequence of valid rows and every     *)
(* permutation of it, the deduped entries, duplicateCount and the import   *)
(* entries (the running balances) are the ones of the original order.  In  *)
(* balance mode the same holds for the permutations that keep the relative *)
(* order of the rows sharing a date.                                       *)
(***************************************************************************)
C27_OrderIndependence ==
    (DedupDone /\ AllRowsValid /\ EntriesConfigured) =>
        \A p \in Rearrangements[Len(input.rows)] :
            (\/ input.cfg.statementType = "transactions"
             \/ KeepsOrderWithinDate(input.rows, p)) =>
                LET result == ResultOf(Permuted(input.rows, p))
                IN /\ result.dedupedRows = output.dedupedRows
                   /\ result.importEntries = output.importEntries

C27_Witness ==
    /\ DedupDone /\ AllRowsValid
    /\ input.cfg.statementType = "transactions"
    /\ input.cfg.selectedAccountId = "acc1"
    /\ input.cfg.text = Txt_1000
    /\ Len(input.rows) = 3
    /\ input.rows[1].dateIso = Day_2024_01_06
    /\ input.rows[2].dateIso = Day_2024_01_05
    /\ input.rows[3].dateIso = Day_2024_01_06
    /\ input.rows[1].amount # input.rows[3].amount
    /\ output.dedupedRows.duplicateCount = 1
    /\ Len(output.importEntries) = 2
    /\ ResultOf(Permuted(input.rows, <<3, 2, 1>>)).importEntries = output.importEntries

(***************************************************************************)
(* The component: values derived from the state on every render (useMemo   *)
(* and plain expressions, lines 205-221 and 269-402).                      *)
(***************************************************************************)
RECURSIVE MaxLength(_)
MaxLength(rows) ==
    IF rows = <<>> THEN 0
    ELSE LET rest == MaxLength(Tail(rows))
         IN IF Len(Head(rows)) > rest THEN Len(Head(rows)) ELSE rest

maxColumns == MaxLength(rawRows)

W_Column == <<"C", "o", "l", "u", "m", "n", " ">>

\* headerRow[index]?.trim(), or `Column ${index + 1}` when that is empty
columnLabels ==
    LET headerRow == IF hasHeaderRow /\ Len(rawRows) > 0 THEN rawRows[1] ELSE <<>>
    IN [k \in 1..maxColumns |->
           LET header == IF k <= Len(headerRow) THEN Trim(headerRow[k]) ELSE <<>>
           IN IF header # <<>> THEN header ELSE W_Column \o PadDigits(k, 1)]

dataRows ==
    IF Len(rawRows) = 0 THEN <<>>
    ELSE IF hasHeaderRow THEN Tail(rawRows) ELSE rawRows

valueColumnIndex ==
    IF statementType = "balance" THEN balanceColumnIndex ELSE amountColumnIndex

\* row[index] ?? ''
CellAt(row, index) == IF index + 1 <= Len(row) THEN row[index + 1] ELSE <<>>

normalizedRows ==
    IF dateColumnIndex < 0 \/ valueColumnIndex < 0 THEN <<>>
    ELSE [k \in 1..Len(dataRows) |->
             [rowIndex |-> IF hasHeaderRow THEN k + 1 ELSE k,
              rawDate |-> CellAt(dataRows[k], dateColumnIndex),
              rawValue |-> CellAt(dataRows[k], valueColumnIndex),
              dateIso |-> normalizeDate(CellAt(dataRows[k], dateColumnIndex),
                                        dateFormat, engine),
              amount |-> parseAmount(CellAt(dataRows[k], valueColumnIndex))]]

validRows == validRowsOf(normalizedRows)

dedupedRows == dedupedRowsOf(validRows, statementType)

startingBalance == startingBalanceOf(statementType, startingBalanceInput)

importEntries ==
    importEntriesOf(dedupedRows.rows, selectedAccountId, statementType,
                    startingBalance)

\* lines 372-391; null when there is no normalized row
summary ==
    LET normalized == normalizedRows
        valid == validRowsOf(normalized)
        deduped == dedupedRowsOf(valid, statementType)
    IN IF Len(normalized) = 0 THEN Null
       ELSE [totalRows |-> Len(normalized),
             validRows |-> Len(valid),
             skippedRows |-> Len(normalized) - Len(valid),
             uniqueDays |-> Len(deduped.rows),
             duplicateCount |-> deduped.duplicateCount,
             dateRange |->
                 IF Len(deduped.rows) > 0
                 THEN [start |-> deduped.rows[1].dateIso,
                       end |-> deduped.rows[Len(deduped.rows)].dateIso]
                 ELSE Null]

hasValidStartingBalance == statementType = "balance" \/ startingBalance # Null

\* a faulty variant: an empty entry list does not block the import
canImport_IgnoresEntries ==
    /\ selectedAccountId # ""
    /\ fileName # ""
    /\ dateColumnIndex >= 0
    /\ valueColumnIndex >= 0
    /\ hasValidStartingBalance
    /\ ~isImporting

canImport ==
    /\ selectedAccountId # ""
    /\ fileName # ""
    /\ dateColumnIndex >= 0
    /\ valueColumnIndex >= 0
    /\ Len(importEntries) > 0
    /\ hasValidStartingBalance
    /\ ~isImporting

(***************************************************************************)
(* The files the user can pick, as texts.                                  *)
(***************************************************************************)
RECURSIVE Join(_, _)
Join(parts, sep) ==
    IF parts = <<>> THEN <<>>
    ELSE IF Len(parts) = 1 THEN parts[1]
    ELSE parts[1] \o <<sep>> \o Join(Tail(parts), sep)

\* a CSV text: cells joined by commas, lines ended by newlines
RECURSIVE CsvText(_)
CsvText(lines) ==
    IF lines = <<>> THEN <<>>
    ELSE Join(Head(lines), ",") \o <<"\n">> \o CsvText(Tail(lines))

Txt_100 == <<"1", "0", "0">>
Txt_150 == <<"1", "5", "0">>
Txt_12_31_2023 == <<"1", "2", "/", "3", "1", "/", "2", "0", "2", "3">>
H_Date == <<"D", "a", "t", "e">>
H_Amount == <<"A", "m", "o", "u", "n", "t">>
H_Memo == <<"M", "e", "m", "o">>

FileNames == {"statement.csv", "empty.csv"}

\* file.text() of the files the user can pick: a statement with a header
\* line, two rows on one day and one row on an earlier day, a file of
\* blank lines only, a file of three columns, a file of one column, and
\* the file a specification draws as its input
FileText(name) ==
    CASE name = "statement.csv" ->
           CsvText(<< <<H_Date, H_Amount>>,
                      <<Day_2024_01_05, Txt_100>>,
                      <<Day_2024_01_05, Txt_150>>,
                      <<Txt_12_31_2023, Txt_Paren_Minus_5>> >>)
      [] name = "empty.csv" -> <<"\n", " ", ",", "\n">>
      [] name = "wide.csv" ->
           CsvText(<< <<H_Memo, H_Date, H_Amount>>,
                      <<H_Memo, Day_2024_01_05, Txt_100>> >>)
      [] name = "narrow.csv" -> CsvText(<< <<H_Amount>>, <<Txt_100>> >>)
      [] name = "input.csv" -> input.text

MaxPending == 1

AccountIds == {"acc1"}

StartingBalanceTexts == {<<>>, Txt_1000}

FormatChoices == {"auto", "ymd"}

(***************************************************************************)
(* Spec: the component.  One action per event handler; handleFileChange    *)
(* is two steps, before and after its await.  The column detection effect  *)
(* runs after the render that follows a change of rawRows, hasHeaderRow or *)
(* statementType and before the next event is handled.                     *)
(***************************************************************************)
Msg_NoRows == <<"No rows found. Please check the CSV formatting.">>
Msg_Unreadable == <<"Unable to read this file. Please try a different CSV.">>
Msg_ImportFailed == <<"Something went wrong while importing. Please try again.">>
Msg_Imported(n) == <<"Imported", n>>

Init ==
    /\ ComponentInit
    /\ engine \in Engines
    /\ pc = "component"
    /\ input = Null
    /\ output = Null

harness == <<engine, pc, input, output>>

\* handleFileChange up to its await (lines 405-416), a file chosen
HandleFileChange_Begin(name) ==
    /\ ~effectPending
    /\ statusMessage' = <<>>
    /\ errorMessage' = <<>>
    /\ pendingReads' = Append(pendingReads, name)
    /\ lastImport' = NoImport
    /\ UNCHANGED <<fileName, rawRows, hasHeaderRow, dateColumnIndex,
                   balanceColumnIndex, amountColumnIndex, selectedAccountId,
                   dateFormat, statementType, startingBalanceInput,
                   replaceExisting, isImporting, effectPending, harness>>

\* the same, with at most MaxPending reads in flight
HandleFileChange_Start(name) ==
    /\ Len(pendingReads) < MaxPending
    /\ HandleFileChange_Begin(name)

\* handleFileChange with no file chosen (lines 405-413)
HandleFileChange_NoFile ==
    /\ ~effectPending
    /\ statusMessage' = <<>>
    /\ errorMessage' = <<>>
    /\ fileName' = ""
    /\ rawRows' = <<>>
    /\ effectPending' = TRUE
    /\ lastImport' = NoImport
    /\ UNCHANGED <<hasHeaderRow, dateColumnIndex, balanceColumnIndex,
                   amountColumnIndex, selectedAccountId, dateFormat,
                   statementType, startingBalanceInput, replaceExisting,
                   isImporting, pendingReads, harness>>

RemoveAt(seq, i) == SubSeq(seq, 1, i - 1) \o SubSeq(seq, i + 1, Len(seq))

\* handleFileChange after file.text() resolved (lines 417-428)
HandleFileChange_Resolved(i) ==
    /\ ~effectPending
    /\ i \in 1..Len(pendingReads)
    /\ LET name == pendingReads[i]
           rows == parseCsv(FileText(name))
       IN IF Len(rows) = 0
          THEN /\ errorMessage' = Msg_NoRows
               /\ rawRows' = <<>>
               /\ fileName' = name
               /\ UNCHANGED <<dateColumnIndex, balanceColumnIndex, amountColumnIndex>>
          ELSE /\ rawRows' = rows
               /\ fileName' = name
               /\ dateColumnIndex' = -1
               /\ balanceColumnIndex' = -1
               /\ amountColumnIndex' = -1
               /\ UNCHANGED errorMessage
    /\ pendingReads' = RemoveAt(pendingReads, i)
    /\ effectPending' = TRUE
    /\ lastImport' = NoImport
    /\ UNCHANGED <<hasHeaderRow, selectedAccountId, dateFormat, statementType,
                   startingBalanceInput, replaceExisting, isImporting,
                   statusMessage, harness>>

\* a faulty variant: the rows of the file loaded before are kept
HandleFileChange_Rejected_KeepsRows(i) ==
    /\ ~effectPending
    /\ i \in 1..Len(pendingReads)
    /\ errorMessage' = Msg_Unreadable
    /\ fileName' = pendingReads[i]
    /\ pendingReads' = RemoveAt(pendingReads, i)
    /\ effectPending' = TRUE
    /\ lastImport' = NoImport
    /\ UNCHANGED <<rawRows, hasHeaderRow, dateColumnIndex, balanceColumnIndex,
                   amountColumnIndex, selectedAccountId, dateFormat,
                   statementType, startingBalanceInput, replaceExisting,
                   isImporting, statusMessage, harness>>

\* handleFileChange after file.text() rejected (lines 429-434)
HandleFileChange_Rejected(i) ==
    /\ ~effectPending
    /\ i \in 1..Len(pendingReads)
    /\ errorMessage' = Msg_Unreadable
    /\ rawRows' = <<>>
    /\ fileName' = pendingReads[i]
    /\ pendingReads' = RemoveAt(pendingReads, i)
    /\ effectPending' = TRUE
    /\ lastImport' = NoImport
    /\ UNCHANGED <<hasHeaderRow, dateColumnIndex, balanceColumnIndex,
                   amountColumnIndex, selectedAccountId, dateFormat,
                   statementType, startingBalanceInput, replaceExisting,
                   isImporting, statusMessage, harness>>

InBounds(prev) == prev >= 0 /\ prev < Len(columnLabels)

DetectedOr(matchers, default) ==
    LET detected == detectColumnIndex(columnLabels, matchers)
    IN IF detected >= 0 THEN detected ELSE default

Min(a, b) == IF a < b THEN a ELSE b

\* a faulty variant: the indexes are detected afresh on every run
ColumnDetectionEffect_AlwaysDetects ==
    /\ effectPending
    /\ effectPending' = FALSE
    /\ IF Len(columnLabels) = 0
       THEN /\ dateColumnIndex' = -1
            /\ balanceColumnIndex' = -1
            /\ amountColumnIndex' = -1
       ELSE /\ dateColumnIndex' = DetectedOr(DateMatchers, 0)
            /\ IF statementType = "balance"
               THEN /\ balanceColumnIndex' =
                          DetectedOr(BalanceMatchers, Min(1, Len(columnLabels) - 1))
                    /\ UNCHANGED amountColumnIndex
               ELSE /\ amountColumnIndex' =
                          DetectedOr(AmountMatchers, Min(1, Len(columnLabels) - 1))
                    /\ UNCHANGED balanceColumnIndex
    /\ UNCHANGED <<fileName, rawRows, hasHeaderRow, selectedAccountId,
                   dateFormat, statementType, startingBalanceInput,
                   replaceExisting, isImporting, statusMessage, errorMessage,
                   pendingReads, lastImport, harness>>

\* a faulty variant: without the early return of lines 224-229
ColumnDetectionEffect_NoEarlyReturn ==
    /\ effectPending
    /\ effectPending' = FALSE
    /\ dateColumnIndex' =
          IF InBounds(dateColumnIndex) THEN dateColumnIndex
          ELSE DetectedOr(DateMatchers, 0)
    /\ IF statementType = "balance"
       THEN /\ balanceColumnIndex' =
                  IF InBounds(balanceColumnIndex) THEN balanceColumnIndex
                  ELSE DetectedOr(BalanceMatchers,
                                  Min(1, Len(columnLabels) - 1))
            /\ UNCHANGED amountColumnIndex
       ELSE /\ amountColumnIndex' =
                  IF InBounds(amountColumnIndex) THEN amountColumnIndex
                  ELSE DetectedOr(AmountMatchers,
                                  Min(1, Len(columnLabels) - 1))
            /\ UNCHANGED balanceColumnIndex
    /\ UNCHANGED <<fileName, rawRows, hasHeaderRow, selectedAccountId,
                   dateFormat, statementType, startingBalanceInput,
                   replaceExisting, isImporting, statusMessage, errorMessage,
                   pendingReads, lastImport, harness>>

\* the effect of lines 223-267
ColumnDetectionEffect ==
    /\ effectPending
    /\ effectPending' = FALSE
    /\ IF Len(columnLabels) = 0
       THEN /\ dateColumnIndex' = -1
            /\ balanceColumnIndex' = -1
            /\ amountColumnIndex' = -1
       ELSE /\ dateColumnIndex' =
                  IF InBounds(dateColumnIndex) THEN dateColumnIndex
                  ELSE DetectedOr(DateMatchers, 0)
            /\ IF statementType = "balance"
               THEN /\ balanceColumnIndex' =
                          IF InBounds(balanceColumnIndex) THEN balanceColumnIndex
                          ELSE DetectedOr(BalanceMatchers,
                                          Min(1, Len(columnLabels) - 1))
                    /\ UNCHANGED amountColumnIndex
               ELSE /\ amountColumnIndex' =
                          IF InBounds(amountColumnIndex) THEN amountColumnIndex
                          ELSE DetectedOr(AmountMatchers,
                                          Min(1, Len(columnLabels) - 1))
                    /\ UNCHANGED balanceColumnIndex
    /\ UNCHANGED <<fileName, rawRows, hasHeaderRow, selectedAccountId,
                   dateFormat, statementType, startingBalanceInput,
                   replaceExisting, isImporting, statusMessage, errorMessage,
                   pendingReads, lastImport, harness>>

\* the account select (line 501)
SetSelectedAccountId(id) ==
    /\ ~effectPending
    /\ selectedAccountId' = id
    /\ lastImport' = NoImport
    /\ UNCHANGED <<fileName, rawRows, hasHeaderRow, dateColumnIndex,
                   balanceColumnIndex, amountColumnIndex, dateFormat,
                   statementType, startingBalanceInput, replaceExisting,
                   isImporting, statusMessage, errorMessage, pendingReads,
                   effectPending, harness>>

\* the statement type select (line 523)
SetStatementType(type) ==
    /\ ~effectPending
    /\ statementType' = type
    /\ effectPending' = (type # statementType)
    /\ lastImport' = NoImport
    /\ UNCHANGED <<fileName, rawRows, hasHeaderRow, dateColumnIndex,
                   balanceColumnIndex, amountColumnIndex, selectedAccountId,
                   dateFormat, startingBalanceInput, replaceExisting,
                   isImporting, statusMessage, errorMessage, pendingReads,
                   harness>>

\* the date column select (line 558), rendered when there are columns
SetDateColumnIndex(index) ==
    /\ ~effectPending
    /\ index \in 0..(Len(columnLabels) - 1)
    /\ dateColumnIndex' = index
    /\ lastImport' = NoImport
    /\ UNCHANGED <<fileName, rawRows, hasHeaderRow, balanceColumnIndex,
                   amountColumnIndex, selectedAccountId, dateFormat,
                   statementType, startingBalanceInput, replaceExisting,
                   isImporting, statusMessage, errorMessage, pendingReads,
                   effectPending, harness>>

\* the value column select (lines 575-582)
SetValueColumnIndex(index) ==
    /\ ~effectPending
    /\ index \in 0..(Len(columnLabels) - 1)
    /\ IF statementType = "balance"
       THEN balanceColumnIndex' = index /\ UNCHANGED amountColumnIndex
       ELSE amountColumnIndex' = index /\ UNCHANGED balanceColumnIndex
    /\ lastImport' = NoImport
    /\ UNCHANGED <<fileName, rawRows, hasHeaderRow, dateColumnIndex,
                   selectedAccountId, dateFormat, statementType,
                   startingBalanceInput, replaceExisting, isImporting,
                   statusMessage, errorMessage, pendingReads, effectPending,
                   harness>>

\* the date format select (line 597)
SetDateFormat(format) ==
    /\ ~effectPending
    /\ Len(columnLabels) > 0
    /\ dateFormat' = format
    /\ lastImport' = NoImport
    /\ UNCHANGED <<fileName, rawRows, hasHeaderRow, dateColumnIndex,
                   balanceColumnIndex, amountColumnIndex, selectedAccountId,
                   statementType, startingBalanceInput, replaceExisting,
                   isImporting, statusMessage, errorMessage, pendingReads,
                   effectPending, harness>>

\* the header row checkbox (line 612)
SetHasHeaderRow(checked) ==
    /\ ~effectPending
    /\ Len(columnLabels) > 0
    /\ hasHeaderRow' = checked
    /\ effectPending' = (checked # hasHeaderRow)
    /\ lastImport' = NoImport
    /\ UNCHANGED <<fileName, rawRows, dateColumnIndex, balanceColumnIndex,
                   amountColumnIndex, selectedAccountId, dateFormat,
                   statementType, startingBalanceInput, replaceExisting,
                   isImporting, statusMessage, errorMessage, pendingReads,
                   harness>>

\* the starting balance input (line 631), rendered in transactions mode
SetStartingBalanceInput(text) ==
    /\ ~effectPending
    /\ statementType = "transactions"
    /\ startingBalanceInput' = text
    /\ lastImport' = NoImport
    /\ UNCHANGED <<fileName, rawRows, hasHeaderRow, dateColumnIndex,
                   balanceColumnIndex, amountColumnIndex, selectedAccountId,
                   dateFormat, statementType, replaceExisting, isImporting,
                   statusMessage, errorMessage, pendingReads, effectPending,
                   harness>>

\* the replace checkbox (line 731)
SetReplaceExisting(checked) ==
    /\ ~effectPending
    /\ replaceExisting' = checked
    /\ lastImport' = NoImport
    /\ UNCHANGED <<fileName, rawRows, hasHeaderRow, dateColumnIndex,
                   balanceColumnIndex, amountColumnIndex, selectedAccountId,
                   dateFormat, statementType, startingBalanceInput,
                   isImporting, statusMessage, errorMessage, pendingReads,
                   effectPending, harness>>

\* a faulty variant: the success message is set although the store threw
HandleImport_StatusOnThrow ==
    /\ ~effectPending
    /\ IF ~canImport
       THEN /\ lastImport' = [outcome |-> "refused", entries |-> <<>>,
                              replace |-> FALSE]
            /\ UNCHANGED <<statusMessage, errorMessage>>
       ELSE \E threw \in BOOLEAN :
               /\ lastImport' = [outcome |-> IF threw THEN "threw" ELSE "returned",
                                 entries |-> importEntries,
                                 replace |-> replaceExisting]
               /\ statusMessage' = Msg_Imported(Len(importEntries))
               /\ errorMessage' = IF threw THEN Msg_ImportFailed ELSE <<>>
    /\ isImporting' = FALSE
    /\ UNCHANGED <<fileName, rawRows, hasHeaderRow, dateColumnIndex,
                   balanceColumnIndex, amountColumnIndex, selectedAccountId,
                   dateFormat, statementType, startingBalanceInput,
                   replaceExisting, pendingReads, effectPending, harness>>

\* handleImport (lines 437-456); importBalances returns or throws.
\* isImporting is true only inside the handler and false again when it
\* returns.
HandleImport ==
    /\ ~effectPending
    /\ IF ~canImport
       THEN /\ lastImport' = [outcome |-> "refused", entries |-> <<>>,
                              replace |-> FALSE]
            /\ UNCHANGED <<statusMessage, errorMessage>>
       ELSE \E threw \in BOOLEAN :
               /\ lastImport' = [outcome |-> IF threw THEN "threw" ELSE "returned",
                                 entries |-> importEntries,
                                 replace |-> replaceExisting]
               /\ statusMessage' = IF threw THEN <<>>
                                   ELSE Msg_Imported(Len(importEntries))
               /\ errorMessage' = IF threw THEN Msg_ImportFailed ELSE <<>>
    /\ isImporting' = FALSE
    /\ UNCHANGED <<fileName, rawRows, hasHeaderRow, dateColumnIndex,
                   balanceColumnIndex, amountColumnIndex, selectedAccountId,
                   dateFormat, statementType, startingBalanceInput,
                   replaceExisting, pendingReads, effectPending, harness>>

Next ==
    \/ \E name \in FileNames : HandleFileChange_Start(name)
    \/ HandleFileChange_NoFile
    \/ \E i \in 1..MaxPending : HandleFileChange_Resolved(i)
    \/ \E i \in 1..MaxPending : HandleFileChange_Rejected(i)
    \/ ColumnDetectionEffect
    \/ \E id \in AccountIds \cup {""} : SetSelectedAccountId(id)
    \/ \E type \in {"balance", "transactions"} : SetStatementType(type)
    \/ \E index \in 0..(maxColumns - 1) : SetDateColumnIndex(index)
    \/ \E index \in 0..(maxColumns - 1) : SetValueColumnIndex(index)
    \/ \E format \in FormatChoices : SetDateFormat(format)
    \/ \E checked \in BOOLEAN : SetHasHeaderRow(checked)
    \/ \E text \in StartingBalanceTexts : SetStartingBalanceInput(text)
    \/ \E checked \in BOOLEAN : SetReplaceExisting(checked)
    \/ HandleImport

Spec == Init /\ [][Next]_vars


(***************************************************************************)
(* Import readiness.                                                       *)
(***************************************************************************)
\* the configuration is incomplete: no account, no file, a column index
\* unset, no import entry, no starting balance in transactions mode, or an
\* import in progress
ConfigIncomplete ==
    \/ selectedAccountId = ""
    \/ fileName = ""
    \/ dateColumnIndex < 0
    \/ valueColumnIndex < 0
    \/ Len(importEntries) = 0
    \/ (statementType = "transactions" /\ startingBalance = Null)
    \/ isImporting

\* C6: a call to handleImport in a state whose configuration is incomplete
\* does nothing: the store's import operation is not invoked and neither the
\* status message nor the error message changes. (Every handleImport step
\* leaves an outcome in lastImport; naming that first settles the steps of
\* the other handlers without evaluating the import entries.)
C6_IncompleteConfigNoImport ==
    [][(lastImport'.outcome # "none" /\ HandleImport /\ ConfigIncomplete) =>
           /\ lastImport'.outcome = "refused"
           /\ UNCHANGED <<statusMessage, errorMessage>>]_vars

\* handleImport was called with a file loaded, an account selected and valid
\* rows, in transactions mode without a starting balance, and did nothing
C6_Witness ==
    /\ lastImport.outcome = "refused"
    /\ fileName = "statement.csv"
    /\ selectedAccountId = "acc1"
    /\ statementType = "transactions"
    /\ dateColumnIndex >= 0
    /\ valueColumnIndex >= 0
    /\ Len(validRows) > 0
    /\ startingBalance = Null
    /\ ConfigIncomplete

(***************************************************************************)
(* Structural failures.                                                    *)
(***************************************************************************)
\* a read has completed in this step
ReadCompleted == Len(pendingReads') < Len(pendingReads)

\* the file whose read completed in this step
CompletedFile == fileName'

\* C20: a structural failure is terminal for its file.  Every read that
\* completes either loads the rows of the file and sets no error, or sets
\* an error message and leaves no rows held, those of a file loaded before
\* included; the file of blank lines never loads.  While no rows are held
\* there is no import entry and import is disabled, and the store is handed
\* entries only while the rows of a successfully loaded file are held.
C20_StructuralFailureTerminal ==
    /\ [](rawRows = <<>> => (Len(importEntries) = 0 /\ ~canImport))
    /\ [](lastImport.outcome \in {"returned", "threw"} =>
              /\ rawRows # <<>>
              /\ fileName = "statement.csv"
              /\ lastImport.entries # <<>>)
    /\ [][ReadCompleted =>
              \/ /\ CompletedFile = "statement.csv"
                 /\ rawRows' # <<>>
                 /\ errorMessage' = errorMessage
              \/ /\ errorMessage' \in {Msg_NoRows, Msg_Unreadable}
                 /\ rawRows' = <<>>]_vars

\* the file of blank lines was chosen after the statement, the read gave no
\* rows, and the import the user then asked for was refused
C20_Witness ==
    /\ fileName = "empty.csv"
    /\ errorMessage = Msg_NoRows
    /\ rawRows = <<>>
    /\ selectedAccountId = "acc1"
    /\ lastImport.outcome = "refused"
    /\ ~canImport

(***************************************************************************)
(* Import-time failures.                                                   *)
(***************************************************************************)
\* handleImport ran in this step: only it leaves an outcome
ImportRan == lastImport'.outcome # "none"

\* C22: when handleImport runs with canImport true, the store's import
\* operation is called once, with the current import entries and the replace
\* flag; if it throws, the error message is set and the success message is
\* empty; if it returns, the success message tells the number of entries
\* and the error message is empty; isImporting is false afterwards.
C22_ImportOutcome ==
    [][(ImportRan /\ canImport) =>
          LET entries == importEntries
          IN /\ lastImport'.outcome \in {"returned", "threw"}
             /\ lastImport'.entries = entries
             /\ lastImport'.replace = replaceExisting
             /\ lastImport'.outcome = "threw" =>
                    /\ errorMessage' = Msg_ImportFailed
                    /\ statusMessage' = <<>>
             /\ lastImport'.outcome = "returned" =>
                    /\ statusMessage' = Msg_Imported(Len(entries))
                    /\ errorMessage' = <<>>
             /\ isImporting' = FALSE]_vars

\* the store threw on an import of entries: the error message is shown and
\* no success message
C22_Witness ==
    /\ lastImport.outcome = "threw"
    /\ Len(lastImport.entries) > 0
    /\ errorMessage = Msg_ImportFailed
    /\ statusMessage = <<>>
    /\ ~isImporting

(***************************************************************************)
(* Re-detection of the columns.                                            *)
(***************************************************************************)
\* the detection step ran in this step
DetectionRan == effectPending /\ ~effectPending'

\* the index lies in [0, number of columns)
Confirmed(index) == index >= 0 /\ index < maxColumns

\* C23: whenever the detection step runs, every column index that lies in
\* [0, number of columns) is left unchanged, a column picked by hand
\* included; an index that changes was unset or out of bounds.
C23_RedetectionKeepsSelections ==
    [][DetectionRan =>
          /\ Confirmed(dateColumnIndex) => dateColumnIndex' = dateColumnIndex
          /\ Confirmed(balanceColumnIndex) =>
                 balanceColumnIndex' = balanceColumnIndex
          /\ Confirmed(amountColumnIndex) =>
                 amountColumnIndex' = amountColumnIndex]_vars

\* the user picked the date column 1 and the balance column 0 by hand, then
\* switched to transactions mode: the detection ran, found the amount column
\* and left the two picked columns alone
C23_Witness ==
    /\ fileName = "statement.csv"
    /\ statementType = "transactions"
    /\ ~effectPending
    /\ dateColumnIndex = 1
    /\ balanceColumnIndex = 0
    /\ amountColumnIndex = 1

(***************************************************************************)
(* The two messages.                                                       *)
(***************************************************************************)
\* C30: the success message and the error message are never both
\* non-empty, under every interleaving of file selections, completions of
\* pending reads (resolved or rejected) and import clicks.
C30_MessagesExclusive == statusMessage = <<>> \/ errorMessage = <<>>

(***************************************************************************)
(* The summary.                                                            *)
(***************************************************************************)
\* C26: in every state where a summary exists, in both statement modes, the
\* total of rows is the valid rows plus the skipped rows, and the valid rows
\* are the unique days plus the duplicates.
C26_SummaryConservation ==
    LET total == summary
    IN total # Null =>
           /\ total.totalRows = total.validRows + total.skippedRows
           /\ total.validRows = total.uniqueDays + total.duplicateCount
           /\ total.skippedRows >= 0
           /\ total.duplicateCount >= 0

\* the statement read without a header row: four rows, the header line
\* skipped, three valid rows on two days, one of them a duplicate
C26_Witness ==
    /\ fileName = "statement.csv"
    /\ ~hasHeaderRow
    /\ ~effectPending
    /\ summary # Null
    /\ summary.totalRows = 4
    /\ summary.skippedRows = 1
    /\ summary.uniqueDays = 2
    /\ summary.duplicateCount = 1

(***************************************************************************)
(* SpecRows: the component given a file of at most MaxLines lines, each a  *)
(* blank line, a header line, a row of 100 on 2024-01-05 or a row of 0 on  *)
(* the same day.  The file is chosen and read, the columns are detected,   *)
(* and the user may switch the header row, the statement type and the      *)
(* account.                                                                *)
(***************************************************************************)
MaxLines == 3

Txt_0 == <<"0">>

Line_Blank == << <<>> >>
Line_Header == <<H_Date, H_Amount>>
Line_100 == <<Day_2024_01_05, Txt_100>>
Line_0 == <<Day_2024_01_05, Txt_0>>

LineKinds == {Line_Blank, Line_Header, Line_100, Line_0}

InitRows ==
    /\ ComponentInit
    /\ engine = "strict"
    /\ pc = "rows"
    /\ \E n \in 0..MaxLines : \E lines \in [1..n -> LineKinds] :
           input = [lines |-> lines, text |-> CsvText(lines)]
    /\ output = Null

NextRows ==
    \/ HandleFileChange_Start("input.csv")
    \/ \E i \in 1..MaxPending : HandleFileChange_Resolved(i)
    \/ ColumnDetectionEffect
    \/ \E id \in AccountIds \cup {""} : SetSelectedAccountId(id)
    \/ \E type \in {"balance", "transactions"} : SetStatementType(type)
    \/ \E checked \in BOOLEAN : SetHasHeaderRow(checked)

SpecRows == InitRows /\ [][NextRows]_vars

\* the file of the input is loaded and the columns are detected
RowsLoaded == pc = "rows" /\ fileName = "input.csv" /\ ~effectPending

\* the numbers of the lines of the file that are not blank, in their order
NonBlankLineNumbers ==
    SelectSeq([k \in 1..Len(input.lines) |-> k],
              LAMBDA k : input.lines[k] # Line_Blank)

\* the number, in the file, of the line that the k-th data row came from
LineNumberOfDataRow(k) ==
    NonBlankLineNumbers[IF hasHeaderRow THEN k + 1 ELSE k]

(***************************************************************************)
(* C16.  The source row number of each normalized row is its position      *)
(* among the data rows, counted from 1, plus 1 when there is a header row, *)
(* and it is the number of the line the row occupies in the file, blank    *)
(* lines before it included.                                               *)
(***************************************************************************)
C16_RowNumberIsLineNumber ==
    RowsLoaded =>
        \A k \in 1..Len(normalizedRows) :
            /\ normalizedRows[k].rowIndex = k + (IF hasHeaderRow THEN 1 ELSE 0)
            /\ normalizedRows[k].rowIndex = LineNumberOfDataRow(k)

\* the columns are chosen, so the rows are normalized (line 272)
ColumnsChosen == pc = "rows" /\ dateColumnIndex >= 0 /\ valueColumnIndex >= 0

\* the line of the file that the k-th data row came from
LineOfDataRow(k) == input.lines[LineNumberOfDataRow(k)]

\* the data rows whose line holds a date and an amount
GoodDataRows ==
    { k \in 1..(Len(NonBlankLineNumbers) - (IF hasHeaderRow THEN 1 ELSE 0)) :
          LineOfDataRow(k) \in {Line_100, Line_0} }

\* the normalized rows that have a date and an amount, in their order
OnlyValid(rows) ==
    SelectSeq(rows, LAMBDA r : r.dateIso # Null /\ r.amount # Null)

(***************************************************************************)
(* C17.  Every data row produces exactly one normalized row, valid or not; *)
(* a row is valid iff its date and its amount are both present, an amount  *)
(* of 0 being present; only valid rows reach the deduplicator, so that the *)
(* deduped rows, the duplicate count and the import entries are those of   *)
(* the valid rows alone; and the skip total is the number of normalized    *)
(* rows minus the number of valid rows.                                    *)
(***************************************************************************)
C17_InvalidRowsKeptAndSkipped ==
    ColumnsChosen =>
        LET normalized == normalizedRows
            valid == validRows
            deduped == dedupedRows
            entries == importEntries
            total == summary
            good == GoodDataRows
            expected == dedupedRowsOf(OnlyValid(normalized), statementType)
        IN /\ Len(normalized) + (IF hasHeaderRow THEN 1 ELSE 0)
                  = Len(NonBlankLineNumbers)
           /\ \A k \in 1..Len(normalized) :
                  /\ normalized[k].rawDate = LineOfDataRow(k)[dateColumnIndex + 1]
                  /\ normalized[k].rawValue = LineOfDataRow(k)[valueColumnIndex + 1]
                  /\ (normalized[k].dateIso # Null /\ normalized[k].amount # Null)
                         <=> k \in good
                  /\ LineOfDataRow(k) = Line_0 => normalized[k].amount = Num(0)
           /\ valid = OnlyValid(normalized)
           /\ Len(valid) = Cardinality(good)
           /\ deduped = expected
           /\ Len(deduped.rows) = (IF good = {} THEN 0 ELSE 1)
           /\ deduped.duplicateCount + Len(deduped.rows) = Cardinality(good)
           /\ entries = importEntriesOf(expected.rows, selectedAccountId,
                                        statementType, startingBalance)
           /\ Len(entries) <= Len(deduped.rows)
           /\ IF Len(normalized) = 0 THEN total = Null
              ELSE /\ total.totalRows = Len(normalized)
                   /\ total.validRows = Cardinality(good)
                   /\ total.skippedRows = Len(normalized) - Len(valid)
                   /\ total.skippedRows = Len(normalized) - Cardinality(good)
                   /\ total.duplicateCount = deduped.duplicateCount

\* a header line read as a data row and skipped, next to a row of amount 0
\* that is valid and gives the one import entry
C17_Witness ==
    /\ ColumnsChosen
    /\ ~effectPending
    /\ selectedAccountId = "acc1"
    /\ input.lines = <<Line_Header, Line_Header, Line_0>>
    /\ hasHeaderRow
    /\ summary.totalRows = 2
    /\ summary.skippedRows = 1
    /\ Len(importEntries) = 1

(***************************************************************************)
(* SpecDetect: the component given a file of one line of at most MaxLabels *)
(* column labels.  The file is chosen and read and the columns are         *)
(* detected; the user may switch the statement type and the header row     *)
(* before choosing the file again.                                         *)
(***************************************************************************)
MaxLabels == 3

L_PostingDate == <<"P", "o", "s", "t", "i", "n", "g", " ", "D", "a", "t", "e">>
L_RunningBalance ==
    <<"R", "u", "n", "n", "i", "n", "g", " ", "B", "a", "l", "a", "n", "c", "e">>
L_Amount == <<"A", "m", "o", "u", "n", "t">>
L_Debit == <<" ", "D", "E", "B", "I", "T", " ">>
L_Memo == <<"M", "e", "m", "o">>

Labels == {L_PostingDate, L_RunningBalance, L_Amount, L_Debit, L_Memo, <<>>}

InitDetect ==
    /\ ComponentInit
    /\ engine = "strict"
    /\ pc = "detect"
    /\ \E n \in 1..MaxLabels : \E labels \in [1..n -> Labels] :
           input = [labels |-> labels, text |-> CsvText(<<labels>>)]
    /\ output = Null

NextDetect ==
    \/ HandleFileChange_Start("input.csv")
    \/ \E i \in 1..MaxPending : HandleFileChange_Resolved(i)
    \/ ColumnDetectionEffect
    \/ \E type \in {"balance", "transactions"} : SetStatementType(type)
    \/ \E checked \in BOOLEAN : SetHasHeaderRow(checked)

SpecDetect == InitDetect /\ [][NextDetect]_vars

\* what each label of Labels is, read off its words
IsDateLabel(label) == label = L_PostingDate
IsBalanceLabel(label) == label = L_RunningBalance
IsAmountLabel(label) == label \in {L_Amount, L_Debit}

\* the 0-based index of the first label of the header line that is of the
\* wanted kind, or the default when there is none or the line is no header
FirstLabel(IsWanted(_), default) ==
    LET hits == { k \in 1..Len(input.labels) :
                      hasHeaderRow /\ IsWanted(input.labels[k]) }
    IN IF hits = {} THEN default
       ELSE (CHOOSE k \in hits : \A j \in hits : k <= j) - 1

ExpectedDateColumn == FirstLabel(IsDateLabel, 0)

ExpectedValueColumn ==
    LET default == IF Len(input.labels) >= 2 THEN 1 ELSE 0
    IN IF statementType = "balance" THEN FirstLabel(IsBalanceLabel, default)
       ELSE FirstLabel(IsAmountLabel, default)

(***************************************************************************)
(* C18.  When the columns of a freshly read file are detected, the date    *)
(* column becomes the smallest index whose label contains "date",          *)
(* "posting" or "transaction date", else 0, and the value column the       *)
(* smallest index whose label contains a keyword of the statement type,    *)
(* else min(1, number of columns - 1); the first matching label wins       *)
(* whichever keyword matched.  The labels Posting Date, Running Balance    *)
(* give date 0 and value 1 in balance mode.                                *)
(***************************************************************************)
C18_FreshFileDetection ==
    [][(effectPending /\ ~effectPending' /\ pc = "detect" /\ rawRows # <<>>
           /\ dateColumnIndex = -1 /\ valueColumnIndex = -1) =>
          /\ dateColumnIndex' = ExpectedDateColumn
          /\ valueColumnIndex' = ExpectedValueColumn
          /\ (/\ input.labels = <<L_PostingDate, L_RunningBalance>>
              /\ hasHeaderRow /\ statementType = "balance") =>
                 dateColumnIndex' = 0 /\ balanceColumnIndex' = 1]_vars

\* the columns of the file Posting Date, Running Balance were detected in
\* balance mode
C18_Witness ==
    /\ pc = "detect"
    /\ ~effectPending
    /\ input.labels = <<L_PostingDate, L_RunningBalance>>
    /\ rawRows = <<input.labels>>
    /\ hasHeaderRow
    /\ statementType = "balance"
    /\ dateColumnIndex = 0
    /\ balanceColumnIndex = 1
    /\ amountColumnIndex = -1

(***************************************************************************)
(* C28.  When the columns of a freshly read file with at least two columns *)
(* are detected, the date column and the value column of the statement     *)
(* type (balance column in balance mode, amount column in transactions     *)
(* mode) become two different indices, whatever the header labels are.     *)
(***************************************************************************)
C28_DetectedColumnsDiffer ==
    [][(effectPending /\ ~effectPending' /\ pc = "detect" /\ rawRows # <<>>
           /\ dateColumnIndex = -1 /\ valueColumnIndex = -1
           /\ maxColumns >= 2) =>
          dateColumnIndex' # valueColumnIndex']_vars

(***************************************************************************)
(* SpecColumns: the component fed files of zero, one, two and three        *)
(* columns in any order, reads that succeed or fail, the header row        *)
(* toggled, the statement type flipped and the columns chosen by hand.     *)
(***************************************************************************)
ColumnFiles == {"statement.csv", "empty.csv", "wide.csv", "narrow.csv"}

InitColumns ==
    /\ ComponentInit
    /\ engine = "strict"
    /\ pc = "columns"
    /\ input = Null
    /\ output = Null

NextColumns ==
    \/ \E name \in ColumnFiles : HandleFileChange_Start(name)
    \/ HandleFileChange_NoFile
    \/ \E i \in 1..MaxPending : HandleFileChange_Resolved(i)
    \/ \E i \in 1..MaxPending : HandleFileChange_Rejected(i)
    \/ ColumnDetectionEffect
    \/ \E type \in {"balance", "transactions"} : SetStatementType(type)
    \/ \E index \in 0..(maxColumns - 1) : SetDateColumnIndex(index)
    \/ \E index \in 0..(maxColumns - 1) : SetValueColumnIndex(index)
    \/ \E checked \in BOOLEAN : SetHasHeaderRow(checked)

SpecColumns == InitColumns /\ [][NextColumns]_vars

(***************************************************************************)
(* C29.  After any sequence of file selections (read, empty or failing),   *)
(* header-row toggles, statement-type flips and manual column choices,     *)
(* once the detection effect has run: with at least one column the date    *)
(* column index and the value column index of the current statement type   *)
(* lie in 0 .. number of columns - 1; with no columns the three column     *)
(* indices are -1.                                                         *)
(***************************************************************************)
C29_IndicesInBounds ==
    ~effectPending =>
        IF maxColumns >= 1
        THEN /\ dateColumnIndex \in 0..(maxColumns - 1)
             /\ valueColumnIndex \in 0..(maxColumns - 1)
        ELSE /\ dateColumnIndex = -1
             /\ balanceColumnIndex = -1
             /\ amountColumnIndex = -1

\* the three-column file read in transactions mode, the header row turned
\* off, the last column chosen as the date and the first as the amount
C29_Witness ==
    /\ pc = "columns"
    /\ ~effectPending
    /\ fileName = "wide.csv"
    /\ maxColumns = 3
    /\ ~hasHeaderRow
    /\ statementType = "transactions"
    /\ dateColumnIndex = 2
    /\ amountColumnIndex = 0
    /\ balanceColumnIndex = -1

(***************************************************************************)
(* SpecMatches: existingDateMatches (lines 360-370) for every store of at  *)
(* most MaxBalances persisted balances, every selected account and every   *)
(* list of import entries made of the days of DedupDates.  An import entry *)
(* carries its date as a day number (UTC midnight, DateOfIso); a persisted *)
(* balance carries an instant of any time of day, in hours since           *)
(* 1970-01-01T00:00Z.                                                      *)
(***************************************************************************)
MaxBalances == 2

HoursPerDay == 24

\* balance.date.toISOString().split('T')[0] of a persisted balance
StoredDatePart(instant) == IsoString(CivilFromDays(instant \div HoursPerDay))

\* entry.date.toISOString().split('T')[0] of an import entry
EntryDatePart(day) == IsoString(CivilFromDays(day))

\* a faulty variant: the balances of every account count
existingDateMatchesOf_AnyAccount(accountId, balances, entries) ==
    IF accountId = "" \/ Len(balances) = 0 THEN 0
    ELSE LET existingDates ==
                 { StoredDatePart(balances[i].date) : i \in 1..Len(balances) }
         IN Cardinality({ k \in 1..Len(entries) :
                              EntryDatePart(entries[k].date) \in existingDates })

existingDateMatchesOf(accountId, balances, entries) ==
    IF accountId = "" \/ Len(balances) = 0 THEN 0
    ELSE LET existingDates ==
                 { StoredDatePart(balances[i].date) :
                       i \in { j \in 1..Len(balances) :
                                  balances[j].accountId = accountId } }
         IN Cardinality({ k \in 1..Len(entries) :
                              EntryDatePart(entries[k].date) \in existingDates })

SortedDays == <<Day_2023_12_31, Day_2024_01_05, Day_2024_01_06>>

\* deduped rows of the chosen days, in ascending order of date
RowsOfDays(days) ==
    SelectSeq([k \in 1..Len(SortedDays) |->
                   [rowIndex |-> k + 1, dateIso |-> SortedDays[k],
                    amount |-> Num(50 * Unit)]],
              LAMBDA row : row.dateIso \in days)

StoredBalances ==
    { [accountId |-> a, date |-> DateOfIso(d) * HoursPerDay + h] :
          a \in {"acc1", "acc2"},
          d \in {Day_2024_01_05, Day_2024_01_06},
          h \in {0, HoursPerDay - 1} }

InitMatches ==
    /\ ComponentInit
    /\ engine = "strict"
    /\ pc = "matches"
    /\ \E accountId \in AccountIds \cup {""}, days \in SUBSET DedupDates,
          replace \in BOOLEAN, n \in 0..MaxBalances :
          \E balances \in [1..n -> StoredBalances] :
              input = [selectedAccountId |-> accountId,
                       balances |-> balances,
                       replaceExisting |-> replace,
                       importEntries |->
                           importEntriesOf(RowsOfDays(days), accountId,
                                           "balance", Null)]
    /\ output = Null

MatchesStep ==
    /\ pc = "matches"
    /\ output' = existingDateMatchesOf(input.selectedAccountId, input.balances,
                                       input.importEntries)
    /\ pc' = "matchesDone"
    /\ UNCHANGED <<compVars, engine, input>>

NextMatches == MatchesStep

SpecMatches == InitMatches /\ [][NextMatches]_vars

MatchesDone == pc = "matchesDone"

\* the import entries that fall on the day of a persisted balance of the
\* selected account
ConflictingEntries ==
    { k \in 1..Len(input.importEntries) :
          \E i \in 1..Len(input.balances) :
              /\ input.balances[i].accountId = input.selectedAccountId
              /\ input.balances[i].date \div HoursPerDay
                     = input.importEntries[k].date }

(***************************************************************************)
(* C19.  existingDateMatches is the number of import entries whose         *)
(* calendar date is the date of at least one persisted balance of the      *)
(* selected account; balances of other accounts do not count; it is 0      *)
(* when no account is selected or the store is empty; it never exceeds the *)
(* number of import entries; and it is the same whatever the replace flag  *)
(* is.                                                                     *)
(***************************************************************************)
C19_ConflictCount ==
    MatchesDone =>
        /\ output = Cardinality(ConflictingEntries)
        /\ (input.selectedAccountId = "" \/ input.balances = <<>>) => output = 0
        /\ output <= Len(input.importEntries)

\* two import entries, one of them on the day of a balance of the selected
\* account stored late in the day, the other on the day of a balance of
\* another account only: one conflict
C19_Witness ==
    /\ MatchesDone
    /\ input.selectedAccountId = "acc1"
    /\ Len(input.importEntries) = 2
    /\ input.balances =
           << [accountId |-> "acc1",
               date |-> DateOfIso(Day_2024_01_05) * HoursPerDay + HoursPerDay - 1],
              [accountId |-> "acc2",
               date |-> DateOfIso(Day_2024_01_06) * HoursPerDay] >>
    /\ input.importEntries[1].date = DateOfIso(Day_2024_01_05)
    /\ input.importEntries[2].date = DateOfIso(Day_2024_01_06)
    /\ output = 1

(***************************************************************************)
(* SpecRace: two file selections in a row.  The user chooses the file      *)
(* input.first and, before its read has completed, the file input.second;  *)
(* the two reads then complete in either order, each resolving or          *)
(* rejecting, and the user may pick an account and a statement type at any *)
(* time.                                                                   *)
(***************************************************************************)
RaceFiles == {"statement.csv", "empty.csv", "input.csv"}

InitRace ==
    /\ ComponentInit
    /\ engine = "strict"
    /\ pc = "race"
    /\ \E first \in RaceFiles, second \in RaceFiles :
           input = [first |-> first, second |-> second,
                    text |-> CsvText(<<Line_Header, Line_0>>)]
    /\ output = Null

\* the first selection
SelectFirst ==
    /\ pendingReads = <<>>
    /\ fileName = ""
    /\ HandleFileChange_Begin(input.first)

\* the second selection, made while the first read is in flight
SelectSecond ==
    /\ pendingReads = <<input.first>>
    /\ fileName = ""
    /\ HandleFileChange_Begin(input.second)

\* both selections are made: no read completes before the second one
BothSelected == pendingReads = <<input.first, input.second>> \/ fileName # ""

ReadResolved(i) == BothSelected /\ HandleFileChange_Resolved(i)

ReadRejected(i) == BothSelected /\ HandleFileChange_Rejected(i)

NextRace ==
    \/ SelectFirst
    \/ SelectSecond
    \/ \E i \in 1..2 : ReadResolved(i)
    \/ \E i \in 1..2 : ReadRejected(i)
    \/ ColumnDetectionEffect
    \/ \E id \in AccountIds \cup {""} : SetSelectedAccountId(id)
    \/ \E type \in {"balance", "transactions"} : SetStatementType(type)

SpecRace == InitRace /\ [][NextRace]_vars

\* both selections were made and both reads have completed
BothCompleted ==
    /\ pc = "race"
    /\ pendingReads = <<>>
    /\ fileName # ""
    /\ lastImport = NoImport

(***************************************************************************)
(* C21.  A superseding file selection discards the earlier one: once the   *)
(* reads of both selections have completed, the file name is that of the   *)
(* second selection and the held rows are its rows (none when its read     *)
(* failed), whichever read completed first.                                *)
(***************************************************************************)
C21_LastSelectionWins ==
    BothCompleted =>
        /\ fileName = input.second
        /\ \/ rawRows = parseCsv(FileText(input.second))
           \/ rawRows = <<>>

=============================================================================
